---- MODULE Spec2Model ----
\* A model of the command interpreter (src/src/ci/interpreter.c) and of the
\* label table it resolves branch and call targets with (src/src/ci/label_map.c).
\* Spec runs whole command lists of control-flow instructions; SpecOps runs one
\* arithmetic, memory or print instruction (or a store / load pair) on chosen
\* register values; SpecLabel calls put_label and get_label on a table alone.
EXTENDS Integers, Sequences, FiniteSets, TLC

\* ---------------------------------------------------------------- bounds

\* Longest command list given to interpret().
MaxProgLen == 3
\* Number of call frames the heap holds before malloc() returns NULL.
MaxStack == 2
\* Bucket count the label table is initialised with (label_map_init's capacity).
LabelCapacity == 2
\* Size of the byte store behind mem_load / mem_store (MEM_CAPACITY of mem.h).
MEM_CAPACITY == 10
\* Longest sequence of put_label calls made on one table.
MaxPuts == 3

\* ---------------------------------------------------------------- constants

\* Number of registers (NUM_VARIABLES of interpreter.h).
NUM_VARIABLES == 32

\* ---------------------------------------------------------------- 64-bit words

\* An int64_t / uint64_t is its eight bytes, least significant first (the
\* layout the LOAD handler's memcpy into a register relies on).
WordIdx == 1..8

\* The word of a small integer n (|n| < 2^23), two's complement.
W(n) ==
    [i \in WordIdx |->
        IF i <= 3 THEN ((n % 16777216) \div (IF i = 1 THEN 1 ELSE IF i = 2 THEN 256 ELSE 65536)) % 256
        ELSE IF n < 0 THEN 255 ELSE 0]

\* (uint64_t)a > (uint64_t)b, most significant byte first.
RECURSIVE UGreaterFrom(_, _, _)
UGreaterFrom(a, b, i) ==
    IF i = 0 THEN FALSE
    ELSE IF a[i] # b[i] THEN a[i] > b[i]
    ELSE UGreaterFrom(a, b, i - 1)

UnsignedGreater(a, b) == UGreaterFrom(a, b, 8)

IsNegative(a) == a[8] >= 128

\* SignedGreater comparing the bit patterns, as CMP_U does.
SignedGreater_AsUnsigned(a, b) == UGreaterFrom(a, b, 8)

\* (int64_t)a > (int64_t)b.
SignedGreater(a, b) ==
    IF IsNegative(a) # IsNegative(b) THEN IsNegative(b)
    ELSE UnsignedGreater(a, b)

\* The value of a word as an integer when it is small; a word out of the small
\* range is clamped to a value beyond every byte count and offset of the model.
Clamp(w) ==
    LET low == w[1] + 256 * w[2] + 65536 * w[3]
    IN  IF \A i \in 4..8 : w[i] = 0 THEN low
        ELSE IF \A i \in 4..8 : w[i] = 255 THEN low - 16777216
        ELSE IF IsNegative(w) THEN 0 - 16777217
        ELSE 16777216

\* INT64_MAX and INT64_MIN.
MaxInt64 == [i \in WordIdx |-> IF i = 8 THEN 127 ELSE 255]
MinInt64 == [i \in WordIdx |-> IF i = 8 THEN 128 ELSE 0]

\* The carry into byte i of a + b.
RECURSIVE CarryInto(_, _, _)
CarryInto(a, b, i) ==
    IF i = 1 THEN 0 ELSE (a[i - 1] + b[i - 1] + CarryInto(a, b, i - 1)) \div 256

\* Add64 stopping at INT64_MAX when two non-negative operands overflow.
Add64_Saturating(a, b) ==
    LET r == [i \in WordIdx |-> (a[i] + b[i] + CarryInto(a, b, i)) % 256]
    IN  IF a[8] < 128 /\ b[8] < 128 /\ r[8] >= 128 THEN MaxInt64 ELSE r

\* a + b on uint64_t: the carry out of the top byte is dropped.
Add64(a, b) == [i \in WordIdx |-> (a[i] + b[i] + CarryInto(a, b, i)) % 256]

\* The borrow taken from byte i of a - b.
RECURSIVE BorrowFrom(_, _, _)
BorrowFrom(a, b, i) ==
    IF i = 1 THEN 0
    ELSE IF a[i - 1] - b[i - 1] - BorrowFrom(a, b, i - 1) < 0 THEN 1 ELSE 0

\* a - b on uint64_t: the borrow out of the top byte is dropped.
Sub64(a, b) == [i \in WordIdx |-> (a[i] - b[i] - BorrowFrom(a, b, i)) % 256]

\* Bit k (0 the least significant) of a word, and the word of 64 bits.
Bit(w, k) == (w[(k \div 8) + 1] \div (2 ^ (k % 8))) % 2

FromBits(f) ==
    [i \in WordIdx |->
        LET o == 8 * (i - 1)
        IN  f[o] + 2 * f[o + 1] + 4 * f[o + 2] + 8 * f[o + 3] + 16 * f[o + 4]
            + 32 * f[o + 5] + 64 * f[o + 6] + 128 * f[o + 7]]

\* a << s, (uint64_t)a >> s and a >> s for s in 0..63. The compilers this
\* program is built with shift a negative int64_t left as they shift its bit
\* pattern, and shift it right with the sign bit filled in.
ShiftLeft(a, s) == FromBits([k \in 0..63 |-> IF k >= s THEN Bit(a, k - s) ELSE 0])

LogicalShiftRight(a, s) ==
    FromBits([k \in 0..63 |-> IF k + s <= 63 THEN Bit(a, k + s) ELSE 0])

ArithmeticShiftRight(a, s) ==
    FromBits([k \in 0..63 |-> IF k + s <= 63 THEN Bit(a, k + s) ELSE Bit(a, 63)])

\* ---------------------------------------------------------------- strings

\* A C string is the sequence of its character codes.
Str_f == <<102>>
Str_Lx == <<46, 76, 120>>
Str_dotL == <<46, 76>>
Str_ab == <<97, 98>>
Str_ba == <<98, 97>>

\* strncmp(s, t, n) == 0: the first n characters agree, a string's end
\* (its NUL) counting as a character.
StrNEq(s, t, n) ==
    \A i \in 1..n :
        LET cs == IF i <= Len(s) THEN s[i] ELSE 0
            ct == IF i <= Len(t) THEN t[i] ELSE 0
        IN  \/ cs = ct
            \/ \E j \in 1..(i - 1) : j > Len(s) /\ j > Len(t)

\* "Label not found: "
Str_LabelNotFound ==
    <<76, 97, 98, 101, 108, 32, 110, 111, 116, 32, 102, 111, 117, 110, 100, 58, 32>>

\* The line printf("Label not found: %s\n", label) writes.
printf_LabelNotFound(label) == Str_LabelNotFound \o label

\* ---------------------------------------------------------------- label table

RECURSIVE SumChars(_, _)
SumChars(s, j) == IF j > Len(s) THEN 0 ELSE s[j] + SumChars(s, j + 1)

hash_function(s) == SumChars(s, 1)

\* An empty table of `capacity` buckets, each a chain (head first).
label_map_init(capacity) == [b \in 0..(capacity - 1) |-> <<>>]

Capacity(map) == Cardinality(DOMAIN map)

\* FindInChain taking an entry for a match when its id has the hash of `id`.
RECURSIVE FindInChain_ByHash(_, _, _)
FindInChain_ByHash(chain, id, k) ==
    IF k > Len(chain) THEN <<>>
    ELSE IF hash_function(chain[k].id) = hash_function(id) THEN <<chain[k]>>
    ELSE FindInChain_ByHash(chain, id, k + 1)

\* The first entry of a chain whose id is `id`, or NULL (0 entries: <<>>).
RECURSIVE FindInChain(_, _, _)
FindInChain(chain, id, k) ==
    IF k > Len(chain) THEN <<>>
    ELSE IF chain[k].id = id THEN <<chain[k]>>
    ELSE FindInChain(chain, id, k + 1)

\* get_label: <<entry>> when found, <<>> for NULL.
get_label(map, id) ==
    FindInChain(map[hash_function(id) % Capacity(map)], id, 1)

\* put_label without the walk of the chain: the new entry always goes in, at
\* the head, in front of an older entry of the same id.
put_label_Overwrites(map, id, command) ==
    [map |-> [map EXCEPT ![hash_function(id) % Capacity(map)] =
                             <<[id |-> id, command |-> command]>> \o @],
     ok |-> TRUE]

\* put_label: the table after the call and the call's return value.
put_label(map, id, command) ==
    LET h == hash_function(id) % Capacity(map)
    IN  IF FindInChain(map[h], id, 1) # <<>>
        THEN [map |-> map, ok |-> FALSE]
        ELSE [map |-> [map EXCEPT ![h] = <<[id |-> id, command |-> command]>> \o @],
              ok |-> TRUE]

\* ---------------------------------------------------------------- commands

\* create_command: a zeroed Command of the given type.
create_command(type) ==
    [type |-> type, destination |-> 0, val_a |-> 0, val_b |-> 0,
     is_a_immediate |-> FALSE, is_b_immediate |-> FALSE,
     branch_condition |-> "BRANCH_NONE"]

\* The commands the parser builds for `mov xd imm`, `cmp xa xb`, `store xs off n`,
\* a branch keyword with a label, `call label` and `ret`. A register operand is
\* its index, an immediate its value, a label the string.
CmdMov(d, imm) ==
    [create_command("CMD_MOV") EXCEPT !.destination = d, !.val_a = imm,
                                      !.is_a_immediate = TRUE]
CmdCmp(a, b) ==
    [create_command("CMD_CMP") EXCEPT !.val_a = a, !.val_b = b]
CmdStore(src, off, n) ==
    [create_command("CMD_STORE") EXCEPT !.destination = src, !.val_a = n,
                                        !.is_a_immediate = TRUE, !.val_b = off,
                                        !.is_b_immediate = TRUE]
CmdBranch(cond, label) ==
    [create_command("CMD_BRANCH") EXCEPT !.branch_condition = cond, !.val_a = label]
CmdCall(label) ==
    [create_command("CMD_CALL") EXCEPT !.val_a = label]
CmdRet == create_command("CMD_RET")

\* The instructions the command lists are built from.
Instrs ==
    {CmdMov(0, 5), CmdMov(1, 7), CmdCmp(1, 0), CmdStore(1, 0, 1), CmdRet,
     CmdBranch("BRANCH_ALWAYS", Str_f), CmdBranch("BRANCH_ALWAYS", Str_Lx),
     CmdBranch("BRANCH_GREATER", Str_f),
     CmdCall(Str_f), CmdCall(Str_Lx)}

\* The commands the parser builds for the other instructions, operands in
\* source order: `add|sub|lsl|lsr|asr xd xa imm`, `cmp_u xa xb`,
\* `load xd n off`, `put "s" off` and `print xa base`. The last operand of each
\* of these (and of cmp and store) is an immediate here; parse_var_or_imm's
\* other branch, a register, is RegB of the command. CmdLoad_OffsetFirst is
\* CmdLoad reading the operands of a load in the order of a store's.
CmdArith(type, d, a, imm) ==
    [create_command(type) EXCEPT !.destination = d, !.val_a = a, !.val_b = imm,
                                 !.is_b_immediate = TRUE]
CmdCmpU(a, b) ==
    [create_command("CMD_CMP_U") EXCEPT !.val_a = a, !.val_b = b]
CmdLoad_OffsetFirst(d, n, off) ==
    [create_command("CMD_LOAD") EXCEPT !.destination = d, !.val_a = off,
                                       !.is_a_immediate = TRUE, !.val_b = n,
                                       !.is_b_immediate = TRUE]
CmdLoad(d, n, off) ==
    [create_command("CMD_LOAD") EXCEPT !.destination = d, !.val_a = n,
                                       !.is_a_immediate = TRUE, !.val_b = off,
                                       !.is_b_immediate = TRUE]
CmdPut(str, off) ==
    [create_command("CMD_PUT") EXCEPT !.val_a = str, !.val_b = off,
                                      !.is_b_immediate = TRUE]
CmdPrint(a, base) ==
    [create_command("CMD_PRINT") EXCEPT !.val_a = a, !.val_b = base]
RegB(cmd) == [cmd EXCEPT !.is_b_immediate = FALSE]

\* The base characters 'd', 'b', 'x' and 's' of a print.
Base_d == 100
Base_b == 98
Base_x == 120
Base_s == 115

\* The last byte of memory.
LastByte == MEM_CAPACITY - 1

\* Arithmetic, comparison and shift instructions on x1 and x2 (or an
\* immediate), with x3 as the destination.
AluInstrs ==
    {RegB(CmdArith(t, 3, 1, 2)) : t \in {"CMD_ADD", "CMD_SUB", "CMD_LSL", "CMD_LSR", "CMD_ASR"}}
    \cup {CmdArith(t, 3, 1, 1) : t \in {"CMD_ADD", "CMD_SUB"}}
    \cup {CmdArith(t, 3, 1, s) : t \in {"CMD_LSL", "CMD_LSR", "CMD_ASR"}, s \in {0, 63, 64}}
    \cup {CmdCmp(1, 2), CmdCmpU(1, 2), [CmdCmp(1, 1) EXCEPT !.is_b_immediate = TRUE]}

\* Memory instructions: x1 stored, x3 loaded, the offset in x2 or immediate.
MemInstrs ==
    {RegB(CmdStore(1, 2, n)) : n \in {0, 1, 2, 3, 4, 8, 9}}
    \cup {CmdStore(1, 0, 8), CmdStore(1, 3, 4), CmdStore(1, LastByte, 1), CmdStore(1, LastByte, 2)}
    \cup {RegB(CmdLoad(3, n, 2)) : n \in {0, 1, 2, 3, 4, 8, 9}}
    \cup {CmdLoad(3, 8, 0), CmdLoad(3, 9, 0), CmdLoad(3, 4, 3), CmdLoad(3, 2, LastByte)}
    \cup {RegB(CmdPut(Str_f, 2)), CmdPut(Str_ab, 0), CmdPut(Str_ab, LastByte - 1),
          CmdPut(Str_ab, LastByte), CmdPut(<<>>, 0)}

\* Prints of x1 in each base, and of an immediate.
PrintInstrs ==
    {CmdPrint(1, base) : base \in {Base_d, Base_b, Base_x, Base_s}}
    \cup {[CmdPrint(5, Base_b) EXCEPT !.is_a_immediate = TRUE]}

\* `store xS OFF N` followed by `load xD N OFF`, and the scenario
\* `mov x0 255`, `store x0 0 8`, `load x1 8 0`.
RoundTrips ==
    {<<CmdStore(1, off, n), CmdLoad(3, n, off)>> : off \in {0, 2}, n \in {1, 2, 4, 8}}
    \cup {<<CmdMov(0, 255), CmdStore(0, 0, 8), CmdLoad(1, 8, 0)>>}

\* A command of the list that the run has not looked at yet. A run depends on
\* the commands it executes only, so a command is drawn from Instrs when the
\* cursor first reaches it and stays what it is from then on.
Unread == [type |-> "unread"]

\* The seven branch conditions.
BranchConditions ==
    {"BRANCH_ALWAYS", "BRANCH_EQUAL", "BRANCH_NOT_EQUAL", "BRANCH_GREATER", "BRANCH_LESS",
     "BRANCH_GREATER_EQUAL", "BRANCH_LESS_EQUAL"}

\* The instructions of these lists: each of the seven branches to f, `cmp x1 x0`
\* and `cmp_u x1 x0`, and `mov x0 5` and `mov x1 7`, after which the comparisons
\* find x1 less or greater than x0 and not equal to it.
JumpInstrs ==
    {CmdBranch(cond, Str_f) : cond \in BranchConditions}
    \cup {CmdCmp(1, 0), CmdCmpU(1, 0), CmdMov(0, 5), CmdMov(1, 7)}

\* A place of a list of branches that no run has looked at yet.
UnreadJump == [type |-> "unread_jump"]

\* The command lists before a run: up to MaxProgLen commands.
Programs == {[p \in 1..n |-> Unread] : n \in 0..MaxProgLen}

\* The table after put_label of the pairs ps[k..], in order.
RECURSIVE PutAll(_, _, _)
PutAll(map, ps, k) ==
    IF k > Len(ps) THEN map
    ELSE PutAll(put_label(map, ps[k].id, ps[k].command).map, ps, k + 1)

\* The label tables handed to the interpreter, as the parser builds them with
\* put_label: each of the labels f and .Lx on a command of the list or not
\* defined.
LabelTables(n) ==
    {PutAll(label_map_init(LabelCapacity),
            SelectSeq(<<[id |-> Str_f, command |-> pf], [id |-> Str_Lx, command |-> pl]>>,
                      LAMBDA e : e.command # 0), 1) :
        pf \in 0..n, pl \in 0..n}

\* ---------------------------------------------------------------- tokens

\* A token of the lexer: its type and its lexeme, the characters of the source
\* text it spans. The lexeme is a slice of the source, not a string of its own:
\* strtol reads on into the source after it, where the next character is one
\* that no number continues with (a blank, a newline, the end of the text), so
\* a conversion ends at the token's end at the latest.
Token(type, lexeme) == [type |-> type, lexeme |-> lexeme]
Keyword(type) == Token(type, <<>>)
Ident(lexeme) == Token("TOK_IDENT", lexeme)
Num(lexeme) == Token("TOK_NUM", lexeme)
StrLit(lexeme) == Token("TOK_STR", lexeme)
NL == Keyword("TOK_NL")
EOF == Keyword("TOK_EOF")
Colon == Keyword("TOK_COLON")

\* The value of a character as a digit ('0'..'9', 'a'..'z', 'A'..'Z'), 36 for
\* any other character.
DigitValue(c) ==
    IF c >= 48 /\ c <= 57 THEN c - 48
    ELSE IF c >= 97 /\ c <= 122 THEN c - 87
    ELSE IF c >= 65 /\ c <= 90 THEN c - 55
    ELSE 36

\* isspace.
IsSpace(c) == c = 32 \/ (c >= 9 /\ c <= 13)

RECURSIVE SkipSpaces(_, _)
SkipSpaces(s, i) ==
    IF i <= Len(s) /\ IsSpace(s[i]) THEN SkipSpaces(s, i + 1) ELSE i

\* The digits of the base from s[i] on: their value and the index after them.
RECURSIVE ReadDigits(_, _, _, _)
ReadDigits(s, i, base, acc) ==
    IF i <= Len(s) /\ DigitValue(s[i]) < base
    THEN ReadDigits(s, i + 1, base, acc * base + DigitValue(s[i]))
    ELSE [value |-> acc, next |-> i]

\* strtol and strtoll (both 64 bits wide): leading blanks, an optional sign, for
\* base 16 an optional 0x before a hex digit, then digits. `end` is the number
\* of characters of s that endptr is past its start; with no digit there is no
\* conversion and endptr is the start. The lexemes of this model are too short
\* for a value that does not fit 64 bits.
HasSign(s, i) == i <= Len(s) /\ s[i] \in {43, 45}

HasHexPrefix(s, base, j) ==
    /\ base = 16
    /\ j + 2 <= Len(s)
    /\ s[j] = 48
    /\ s[j + 1] \in {120, 88}
    /\ DigitValue(s[j + 2]) < 16

\* The conversion of the digits r read from s[k] on, the sign being at s[i] if any.
Converted(s, i, k, r) ==
    IF r.next = k THEN [value |-> 0, end |-> 0]
    ELSE [value |-> IF HasSign(s, i) /\ s[i] = 45 THEN 0 - r.value ELSE r.value,
          end |-> r.next - 1]

AfterPrefix(s, base, i, k) == Converted(s, i, k, ReadDigits(s, k, base, 0))

AfterSign(s, base, i, j) ==
    AfterPrefix(s, base, i, IF HasHexPrefix(s, base, j) THEN j + 2 ELSE j)

AfterSpaces(s, base, i) == AfterSign(s, base, i, IF HasSign(s, i) THEN i + 1 ELSE i)

strtol(s, base) == AfterSpaces(s, base, SkipSpaces(s, 1))

\* is_variable: at least two characters, the first an 'x'.
is_variable(token) == Len(token.lexeme) >= 2 /\ token.lexeme[1] = 120

\* is_base: one of the characters d, x, s, b.
is_base(token) == Len(token.lexeme) = 1 /\ token.lexeme[1] \in {100, 120, 115, 98}

\* parse_variable letting the index 32 through (`> 32` for `> 31`).
parse_variable_Accepts32(token) ==
    LET Checked(r) ==
            IF r.end # Len(token.lexeme) - 1 \/ r.value < 0 \/ r.value > 32
            THEN [ok |-> FALSE, var_num |-> 0]
            ELSE [ok |-> TRUE, var_num |-> r.value]
    IN  Checked(strtol(SubSeq(token.lexeme, 2, Len(token.lexeme)), 10))

\* parse_variable: whether the characters after the 'x' are a number from 0 to
\* 31 and nothing else, and the number (var_num counts on success only).
parse_variable(token) ==
    LET Checked(r) ==
            IF r.end # Len(token.lexeme) - 1 \/ r.value < 0 \/ r.value > 31
            THEN [ok |-> FALSE, var_num |-> 0]
            ELSE [ok |-> TRUE, var_num |-> r.value]
    IN  Checked(strtol(SubSeq(token.lexeme, 2, Len(token.lexeme)), 10))

\* parse_number reading the digits after 0b in base 16 as after 0x.
parse_number_BinaryAsHex(token) ==
    LET lx == token.lexeme
        based == Len(lx) > 2 /\ lx[1] = 48 /\ lx[2] \in {120, 98}
        digits == IF based THEN SubSeq(lx, 3, Len(lx)) ELSE lx
        Whole(r) == [ok |-> r.end = Len(digits), result |-> r.value]
    IN  Whole(strtol(digits, IF based THEN 16 ELSE 10))

\* parse_number: base 16 after 0x and base 2 after 0b in a token of three
\* characters or more, base 10 otherwise; the whole rest has to convert.
parse_number(token) ==
    LET lx == token.lexeme
        based == Len(lx) > 2 /\ lx[1] = 48 /\ lx[2] \in {120, 98}
        base == IF ~based THEN 10 ELSE IF lx[2] = 120 THEN 16 ELSE 2
        digits == IF based THEN SubSeq(lx, 3, Len(lx)) ELSE lx
        Whole(r) == [ok |-> r.end = Len(digits), result |-> r.value]
    IN  Whole(strtol(digits, base))

\* The operand parsers: whether the token was taken (the parser then advances
\* past it) and the operand's num_val, op being the value it had.

\* parse_im: a TOK_NUM that parse_number converts. (Its callers advance.)
parse_im(token, op) ==
    IF token.type # "TOK_NUM" THEN [ok |-> FALSE, num_val |-> op]
    ELSE LET Taken(r) == IF r.ok THEN [ok |-> TRUE, num_val |-> r.result]
                          ELSE [ok |-> FALSE, num_val |-> op]
         IN  Taken(parse_number(token))

\* parse_variable_operand: a TOK_IDENT that is_variable and parse_variable accept.
parse_variable_operand(token, op) ==
    IF token.type # "TOK_IDENT" \/ ~is_variable(token) THEN [ok |-> FALSE, num_val |-> op]
    ELSE LET Taken(r) == IF r.ok THEN [ok |-> TRUE, num_val |-> r.var_num]
                          ELSE [ok |-> FALSE, num_val |-> op]
         IN  Taken(parse_variable(token))

\* parse_var_or_imm: a register, else an immediate; is_im is the flag it sets,
\* im being the value the flag had.
parse_var_or_imm(token, op, im) ==
    IF token.type = "TOK_IDENT" /\ is_variable(token)
    THEN LET Variable(r) ==
                 [ok |-> r.ok, num_val |-> r.num_val, is_im |-> IF r.ok THEN FALSE ELSE im]
         IN  Variable(parse_variable_operand(token, op))
    ELSE IF token.type = "TOK_NUM"
    THEN LET Immediate(r) ==
                 [ok |-> r.ok, num_val |-> r.num_val, is_im |-> IF r.ok THEN TRUE ELSE im]
         IN  Immediate(parse_im(token, op))
    ELSE [ok |-> FALSE, num_val |-> op, is_im |-> im]

\* parse_base: the base character of a print.
parse_base(token, op) ==
    IF is_base(token) THEN [ok |-> TRUE, num_val |-> token.lexeme[1]]
    ELSE [ok |-> FALSE, num_val |-> op]

\* ---------------------------------------------------------------- parser

\* The token at position i of the tokens a statement is made of; what comes
\* after them has not been read.
At(toks, i) == IF i <= Len(toks) THEN toks[i] ELSE Unread

\* A null Command*.
NULL == [type |-> "NULL"]

\* skip_nls: the position of the first token from i on that is no newline.
RECURSIVE skip_nls(_, _)
skip_nls(toks, i) ==
    IF At(toks, i).type = "TOK_NL" THEN skip_nls(toks, i + 1) ELSE i

\* consume_newline: whether the token at i is a newline or the end of input,
\* and the position after it (advance stays on the end of input).
consume_newline(toks, i) ==
    IF At(toks, i).type = "TOK_NL" THEN [ok |-> TRUE, pos |-> i + 1]
    ELSE IF At(toks, i).type = "TOK_EOF" THEN [ok |-> TRUE, pos |-> i]
    ELSE [ok |-> FALSE, pos |-> i]

\* A case of parse_cmd's switch that gave the command up: had_error is set and
\* NULL is returned.
Mismatch(i) == [cmd |-> NULL, pos |-> i, ok |-> FALSE]

\* The cases of parse_cmd's switch, the keyword at position i: the command
\* built, the position after its last operand, and whether every operand
\* parsed.

\* TOK_MOV: a register, any newlines (skip_nls), an immediate at position j.
Case_TOK_MOV(toks, i) ==
    LET Built(d, j, a) ==
            IF ~d.ok THEN Mismatch(i + 1)
            ELSE IF ~a.ok THEN Mismatch(j)
            ELSE [cmd |-> CmdMov(d.num_val, a.num_val), pos |-> j + 1, ok |-> TRUE]
    IN  Built(parse_variable_operand(At(toks, i + 1), 0), skip_nls(toks, i + 2),
              parse_im(At(toks, skip_nls(toks, i + 2)), 0))

\* TOK_ADD, TOK_SUB, TOK_LSL, TOK_LSR, TOK_ASR: two registers, then a register
\* or an immediate.
Case_Arith(type, toks, i) ==
    LET Built(d, a, b) ==
            IF ~d.ok THEN Mismatch(i + 1)
            ELSE IF ~a.ok THEN Mismatch(i + 2)
            ELSE IF ~b.ok THEN Mismatch(i + 3)
            ELSE [cmd |-> [CmdArith(type, d.num_val, a.num_val, b.num_val)
                              EXCEPT !.is_b_immediate = b.is_im],
                  pos |-> i + 4, ok |-> TRUE]
    IN  Built(parse_variable_operand(At(toks, i + 1), 0),
              parse_variable_operand(At(toks, i + 2), 0),
              parse_var_or_imm(At(toks, i + 3), 0, FALSE))

\* TOK_CMP, TOK_CMP_U: a register, then a register or an immediate.
Case_Compare(type, toks, i) ==
    LET Built(a, b) ==
            IF ~a.ok THEN Mismatch(i + 1)
            ELSE IF ~b.ok THEN Mismatch(i + 2)
            ELSE [cmd |-> [create_command(type) EXCEPT !.val_a = a.num_val,
                                                       !.val_b = b.num_val,
                                                       !.is_b_immediate = b.is_im],
                  pos |-> i + 3, ok |-> TRUE]
    IN  Built(parse_variable_operand(At(toks, i + 1), 0),
              parse_var_or_imm(At(toks, i + 2), 0, FALSE))

\* TOK_PRINT: a register or an immediate, then a base.
Case_TOK_PRINT(toks, i) ==
    LET Built(a, b) ==
            IF ~a.ok THEN Mismatch(i + 1)
            ELSE IF ~b.ok THEN Mismatch(i + 2)
            ELSE [cmd |-> [CmdPrint(a.num_val, b.num_val) EXCEPT !.is_a_immediate = a.is_im],
                  pos |-> i + 3, ok |-> TRUE]
    IN  Built(parse_var_or_imm(At(toks, i + 1), 0, FALSE), parse_base(At(toks, i + 2), 0))

\* TOK_AND, TOK_EOR, TOK_ORR: three registers.
Case_Logic(type, toks, i) ==
    LET Built(d, a, b) ==
            IF ~d.ok THEN Mismatch(i + 1)
            ELSE IF ~a.ok THEN Mismatch(i + 2)
            ELSE IF ~b.ok THEN Mismatch(i + 3)
            ELSE [cmd |-> [create_command(type) EXCEPT !.destination = d.num_val,
                                                       !.val_a = a.num_val,
                                                       !.val_b = b.num_val],
                  pos |-> i + 4, ok |-> TRUE]
    IN  Built(parse_variable_operand(At(toks, i + 1), 0),
              parse_variable_operand(At(toks, i + 2), 0),
              parse_variable_operand(At(toks, i + 3), 0))

\* TOK_LOAD: a register, the immediate byte count, then the offset.
Case_TOK_LOAD(toks, i) ==
    LET Built(d, n, off) ==
            IF ~d.ok THEN Mismatch(i + 1)
            ELSE IF ~n.ok THEN Mismatch(i + 2)
            ELSE IF ~off.ok THEN Mismatch(i + 3)
            ELSE [cmd |-> [CmdLoad(d.num_val, n.num_val, off.num_val)
                              EXCEPT !.is_b_immediate = off.is_im],
                  pos |-> i + 4, ok |-> TRUE]
    IN  Built(parse_variable_operand(At(toks, i + 1), 0), parse_im(At(toks, i + 2), 0),
              parse_var_or_imm(At(toks, i + 3), 0, FALSE))

\* TOK_STORE: a register, the offset, then the immediate byte count.
Case_TOK_STORE(toks, i) ==
    LET Built(d, off, n) ==
            IF ~d.ok THEN Mismatch(i + 1)
            ELSE IF ~off.ok THEN Mismatch(i + 2)
            ELSE IF ~n.ok THEN Mismatch(i + 3)
            ELSE [cmd |-> [CmdStore(d.num_val, off.num_val, n.num_val)
                              EXCEPT !.is_b_immediate = off.is_im],
                  pos |-> i + 4, ok |-> TRUE]
    IN  Built(parse_variable_operand(At(toks, i + 1), 0),
              parse_var_or_imm(At(toks, i + 2), 0, FALSE), parse_im(At(toks, i + 3), 0))

\* TOK_PUT: a string literal, then the offset.
Case_TOK_PUT(toks, i) ==
    LET Built(off) ==
            IF ~off.ok THEN Mismatch(i + 2)
            ELSE [cmd |-> [CmdPut(At(toks, i + 1).lexeme, off.num_val)
                              EXCEPT !.is_b_immediate = off.is_im],
                  pos |-> i + 3, ok |-> TRUE]
    IN  IF At(toks, i + 1).type # "TOK_STR" THEN Mismatch(i + 1)
        ELSE Built(parse_var_or_imm(At(toks, i + 2), 0, FALSE))

\* The branch condition of each branch keyword.
BranchCondition(type) ==
    CASE type = "TOK_BRANCH" -> "BRANCH_ALWAYS"
      [] type = "TOK_BRANCH_EQ" -> "BRANCH_EQUAL"
      [] type = "TOK_BRANCH_GE" -> "BRANCH_GREATER_EQUAL"
      [] type = "TOK_BRANCH_GT" -> "BRANCH_GREATER"
      [] type = "TOK_BRANCH_LE" -> "BRANCH_LESS_EQUAL"
      [] type = "TOK_BRANCH_LT" -> "BRANCH_LESS"
      [] type = "TOK_BRANCH_NEQ" -> "BRANCH_NOT_EQUAL"
      [] OTHER -> "BRANCH_NONE"

\* TOK_BRANCH and its six conditional forms, TOK_CALL: an identifier.
Case_Jump(type, toks, i) ==
    IF At(toks, i + 1).type # "TOK_IDENT" THEN Mismatch(i + 1)
    ELSE [cmd |-> IF type = "TOK_CALL" THEN CmdCall(At(toks, i + 1).lexeme)
                  ELSE CmdBranch(BranchCondition(type), At(toks, i + 1).lexeme),
          pos |-> i + 2, ok |-> TRUE]

\* parse_cmd's switch on the type of the token at i.
Switch(toks, i) ==
    LET type == At(toks, i).type
    IN  CASE type = "TOK_MOV" -> Case_TOK_MOV(toks, i)
          [] type = "TOK_ADD" -> Case_Arith("CMD_ADD", toks, i)
          [] type = "TOK_SUB" -> Case_Arith("CMD_SUB", toks, i)
          [] type = "TOK_CMP" -> Case_Compare("CMD_CMP", toks, i)
          [] type = "TOK_CMP_U" -> Case_Compare("CMD_CMP_U", toks, i)
          [] type = "TOK_PRINT" -> Case_TOK_PRINT(toks, i)
          [] type = "TOK_AND" -> Case_Logic("CMD_AND", toks, i)
          [] type = "TOK_EOR" -> Case_Logic("CMD_EOR", toks, i)
          [] type = "TOK_ORR" -> Case_Logic("CMD_ORR", toks, i)
          [] type = "TOK_LSL" -> Case_Arith("CMD_LSL", toks, i)
          [] type = "TOK_LSR" -> Case_Arith("CMD_LSR", toks, i)
          [] type = "TOK_ASR" -> Case_Arith("CMD_ASR", toks, i)
          [] type = "TOK_LOAD" -> Case_TOK_LOAD(toks, i)
          [] type = "TOK_STORE" -> Case_TOK_STORE(toks, i)
          [] type = "TOK_PUT" -> Case_TOK_PUT(toks, i)
          [] type \in {"TOK_BRANCH", "TOK_BRANCH_EQ", "TOK_BRANCH_GE", "TOK_BRANCH_GT",
                       "TOK_BRANCH_LE", "TOK_BRANCH_LT", "TOK_BRANCH_NEQ", "TOK_CALL"}
               -> Case_Jump(type, toks, i)
          [] type = "TOK_RET" -> [cmd |-> CmdRet, pos |-> i + 1, ok |-> TRUE]
          [] OTHER -> Mismatch(i)

\* parse_cmd from position `start` of the tokens, the command it returns being
\* the one at position `at` of the list: the command or NULL, the position
\* after it, the parser's had_error, the label table, and the put_label calls
\* made. A label prefix parses the command after it and puts the label on it.
RECURSIVE parse_cmd(_, _, _, _)
parse_cmd(toks, start, map, at) ==
    LET Registered(token, labeled_cmd) ==
            LET Put(put) ==
                    [labeled_cmd EXCEPT
                        !.map = put.map,
                        !.had_error = labeled_cmd.had_error \/ ~put.ok,
                        !.puts = Append(labeled_cmd.puts,
                                        [id |-> token.lexeme, command |-> at, ok |-> put.ok])]
            IN  IF labeled_cmd.cmd = NULL THEN labeled_cmd
                ELSE Put(put_label(labeled_cmd.map, token.lexeme, at))
        Terminated(body, nl) ==
            IF ~body.ok \/ ~nl.ok
            THEN [cmd |-> NULL, pos |-> body.pos, had_error |-> TRUE, map |-> map,
                  puts |-> <<>>]
            ELSE [cmd |-> body.cmd, pos |-> nl.pos, had_error |-> FALSE, map |-> map,
                  puts |-> <<>>]
        From(i) ==
            IF At(toks, i).type = "TOK_IDENT" /\ At(toks, i + 1).type = "TOK_COLON"
            THEN Registered(At(toks, i), parse_cmd(toks, i + 2, map, at))
            ELSE IF At(toks, i).type = "TOK_EOF"
            THEN [cmd |-> NULL, pos |-> i, had_error |-> FALSE, map |-> map, puts |-> <<>>]
            ELSE Terminated(Switch(toks, i), consume_newline(toks, Switch(toks, i).pos))
    IN  From(skip_nls(toks, start))

\* ---------------------------------------------------------------- state

VARIABLES
    lexer,       \* the source text: the statements the lexer has still to deliver
                 \* (pending), or any statements at all (open)
    parser,      \* parser->had_error, whether parser->current is the end of input,
                 \* whether parse_commands has returned, whether its list has been
                 \* handed to interpret and (history) the statements read so far
    commands,    \* the command list; a Command* is a position 1..Len, NULL is 0
    label_map,   \* intr->label_map
    current,     \* interpret's cursor
    variables,   \* intr->variables
    is_greater, is_equal, is_less,
    had_error,   \* intr->had_error
    the_stack,   \* intr->the_stack, top first; a frame is [variables, command]
    mem,         \* the byte store of mem.h
    returned,    \* no call of interpret is under way: it has returned, or is still to be made
    output,      \* stdout: the lines printed so far, each the sequence of its characters
    puts,        \* history: the put_label calls made on label_map since the initial state
    calls,       \* history: per outstanding CALL, the registers just before it and its position
    last         \* history: the last step's kind, its command's position, the stack depth
                 \* before it, the registers it changed and, for a RET that popped a
                 \* frame, the registers just before the matching CALL

vars == <<lexer, parser, commands, label_map, current, variables, is_greater, is_equal, is_less,
          had_error, the_stack, mem, returned, output, puts, calls, last>>

flags == <<is_greater, is_equal, is_less>>

\* A lexer with nothing left but the end of input, and a parser whose
\* parse_commands has returned: the state of both while the interpreter runs a
\* list that is given.
LexerDone == [open |-> FALSE, pending |-> <<>>]
ParserIdle == [had_error |-> FALSE, at_end |-> TRUE, returned |-> TRUE, handed |-> TRUE,
               read |-> <<>>]

\* command->next in a list whose last command is linked to its first.
NextOf_Circular(p) == IF p < Len(commands) THEN p + 1 ELSE 1

\* command->next
NextOf(p) == IF p < Len(commands) THEN p + 1 ELSE 0

\* interpreter_init, then interpret's `current = commands` (NULL for an empty
\* list, which interpret returns on at once).
Init ==
    /\ lexer = LexerDone
    /\ parser = ParserIdle
    /\ commands \in Programs
    /\ label_map \in LabelTables(Len(commands))
    /\ current = IF commands = <<>> THEN 0 ELSE 1
    /\ variables = [i \in 0..(NUM_VARIABLES - 1) |-> W(0)]
    /\ is_greater = FALSE
    /\ is_equal = FALSE
    /\ is_less = FALSE
    /\ had_error = FALSE
    /\ the_stack = <<>>
    /\ mem = [a \in 0..(MEM_CAPACITY - 1) |-> 0]
    /\ returned = FALSE
    /\ output = <<>>
    /\ puts = <<>>
    /\ calls = <<>>
    /\ last = [kind |-> "init", at |-> 0, depth |-> 0, changed |-> {}, before |-> <<>>]

\* The commands the cursor can be on: the command already fixed there, or any
\* of Instrs (of JumpInstrs, in a list of branches) when the run has not looked
\* at it yet.
AtCursor ==
    IF returned \/ current = 0 THEN {}
    ELSE IF commands[current] = Unread THEN Instrs
    ELSE IF commands[current] = UnreadJump THEN JumpInstrs
    ELSE {commands[current]}

\* The loop condition of interpret holds and the current command is cmd, of
\* one of the given types.
Running(cmd, types) ==
    /\ ~returned
    /\ current # 0
    /\ ~had_error
    /\ cmd.type \in types
    /\ commands[current] \in {Unread, UnreadJump, cmd}
    /\ commands' = [commands EXCEPT ![current] = cmd]

\* The history of a step of the given kind that leaves the registers as regs.
Did(kind, regs) ==
    last' = [kind |-> kind, at |-> current, depth |-> Len(the_stack),
             changed |-> {i \in DOMAIN variables : regs[i] # variables[i]},
             before |-> IF kind = "ret_pop" THEN Head(calls).variables ELSE <<>>]

\* fetch_number_value: the value and whether it raised had_error.
fetch_number_value(regs, op, is_im) ==
    IF is_im THEN [value |-> W(op), error |-> FALSE]
    ELSE IF op < 0 \/ op >= NUM_VARIABLES THEN [value |-> W(0), error |-> TRUE]
    ELSE [value |-> regs[op], error |-> FALSE]

\* cond_holds with BRANCH_GREATER answering "not less".
cond_holds_GreaterAsNotLess(cond) ==
    CASE cond = "BRANCH_ALWAYS" -> TRUE
      [] cond = "BRANCH_EQUAL" -> is_equal
      [] cond = "BRANCH_NOT_EQUAL" -> ~is_equal
      [] cond = "BRANCH_GREATER" -> ~is_less
      [] cond = "BRANCH_LESS" -> is_less
      [] cond = "BRANCH_GREATER_EQUAL" -> is_greater \/ is_equal
      [] cond = "BRANCH_LESS_EQUAL" -> is_less \/ is_equal
      [] OTHER -> FALSE

cond_holds(cond) ==
    CASE cond = "BRANCH_ALWAYS" -> TRUE
      [] cond = "BRANCH_EQUAL" -> is_equal
      [] cond = "BRANCH_NOT_EQUAL" -> ~is_equal
      [] cond = "BRANCH_GREATER" -> is_greater
      [] cond = "BRANCH_LESS" -> is_less
      [] cond = "BRANCH_GREATER_EQUAL" -> is_greater \/ is_equal
      [] cond = "BRANCH_LESS_EQUAL" -> is_less \/ is_equal
      [] OTHER -> FALSE

\* mem_store of `n` bytes of buf at offset: the memory after it and its result.
\* A negative offset stands for the huge size_t it converts to.
mem_store(m, buf, offset, n) ==
    IF offset < 0 \/ offset + n > MEM_CAPACITY
    THEN [mem |-> m, ok |-> FALSE]
    ELSE [mem |-> [a \in DOMAIN m |->
                     IF a >= offset /\ a < offset + n THEN buf[a - offset + 1] ELSE m[a]],
          ok |-> TRUE]

\* ---------------------------------------------------------------- interpret

\* CMD_MOV.
ExecMov ==
    \E cmd \in AtCursor :
    /\ Running(cmd, {"CMD_MOV"})
    /\ LET v == fetch_number_value(variables, cmd.val_a, cmd.is_a_immediate)
       IN  IF v.error
           THEN /\ had_error' = TRUE
                /\ Did("mov_error", variables)
                /\ UNCHANGED <<current, variables>>
           ELSE /\ variables' = [variables EXCEPT ![cmd.destination] = v.value]
                /\ current' = NextOf(current)
                /\ Did("mov", [variables EXCEPT ![cmd.destination] = v.value])
                /\ UNCHANGED had_error
    /\ UNCHANGED <<lexer, parser, label_map, flags, the_stack, mem, returned, calls, output, puts>>

\* CMD_CMP and CMD_CMP_U.
ExecCmp ==
    \E cmd \in AtCursor :
    /\ Running(cmd, {"CMD_CMP", "CMD_CMP_U"})
    /\ LET a == fetch_number_value(variables, cmd.val_a, FALSE)
           b == fetch_number_value(variables, cmd.val_b, cmd.is_b_immediate)
           greater == IF cmd.type = "CMD_CMP" THEN SignedGreater(a.value, b.value)
                      ELSE UnsignedGreater(a.value, b.value)
           equal == (a.value = b.value)
       IN  IF a.error \/ b.error
           THEN /\ had_error' = TRUE
                /\ Did("cmp_error", variables)
                /\ UNCHANGED <<current, flags>>
           ELSE /\ is_greater' = greater
                /\ is_equal' = equal
                /\ is_less' = ~(greater \/ equal)
                /\ current' = NextOf(current)
                /\ Did("cmp", variables)
                /\ UNCHANGED had_error
    /\ UNCHANGED <<lexer, parser, label_map, variables, the_stack, mem, returned, calls, output, puts>>

\* StoreSizeBad accepting every size from 1 to 8.
StoreSizeBad_UpTo8(bytes) == bytes < 1 \/ bytes > 8

\* The size check of CMD_STORE: bytes != 1 && bytes != 2 && bytes != 4 && bytes != 8.
StoreSizeBad(bytes) == bytes # 1 /\ bytes # 2 /\ bytes # 4 /\ bytes # 8

\* CMD_STORE. The two fetches are not followed by a check of had_error.
ExecStore ==
    \E cmd \in AtCursor :
    /\ Running(cmd, {"CMD_STORE"})
    /\ LET fb == fetch_number_value(variables, cmd.val_a, cmd.is_a_immediate)
           fo == fetch_number_value(variables, cmd.val_b, cmd.is_b_immediate)
           bytes == Clamp(fb.value)
           offset == Clamp(fo.value)
           value == variables[cmd.destination]
           buffer == [i \in 1..8 |-> IF i <= bytes THEN value[i] ELSE 0]
           st == mem_store(mem, buffer, offset, bytes)
       IN  IF StoreSizeBad(bytes) \/ offset + bytes > MEM_CAPACITY \/ ~st.ok
           THEN /\ had_error' = TRUE
                /\ Did("store_error", variables)
                /\ UNCHANGED <<current, mem>>
           ELSE /\ mem' = st.mem
                /\ had_error' = (fb.error \/ fo.error)
                /\ current' = IF fb.error \/ fo.error THEN current ELSE NextOf(current)
                /\ Did("store", variables)
    /\ UNCHANGED <<lexer, parser, label_map, variables, flags, the_stack, returned, calls, output, puts>>

\* mem_load of `n` bytes at offset: the bytes read and its result. A negative
\* offset or count stands for the huge size_t it converts to.
mem_load(m, offset, n) ==
    IF offset < 0 \/ n < 0 \/ offset + n > MEM_CAPACITY
    THEN [bytes |-> <<>>, ok |-> FALSE]
    ELSE [bytes |-> [j \in 1..n |-> m[offset + j - 1]], ok |-> TRUE]

\* CMD_ADD and CMD_SUB.
ExecAddSub ==
    \E cmd \in AtCursor :
    /\ Running(cmd, {"CMD_ADD", "CMD_SUB"})
    /\ LET a == fetch_number_value(variables, cmd.val_a, FALSE)
           b == fetch_number_value(variables, cmd.val_b, cmd.is_b_immediate)
           result == IF cmd.type = "CMD_ADD" THEN Add64(a.value, b.value)
                     ELSE Sub64(a.value, b.value)
           dest_index == cmd.destination
       IN  IF a.error \/ b.error \/ dest_index < 0 \/ dest_index >= NUM_VARIABLES
           THEN /\ had_error' = TRUE
                /\ Did("addsub_error", variables)
                /\ UNCHANGED <<current, variables>>
           ELSE /\ variables' = [variables EXCEPT ![dest_index] = result]
                /\ current' = NextOf(current)
                /\ Did("addsub", [variables EXCEPT ![dest_index] = result])
                /\ UNCHANGED had_error
    /\ UNCHANGED <<lexer, parser, label_map, flags, the_stack, mem, returned, calls, output, puts>>

\* a & b, a ^ b and a | b.
BitwiseAnd(a, b) == FromBits([k \in 0..63 |-> Bit(a, k) * Bit(b, k)])
BitwiseXor(a, b) == FromBits([k \in 0..63 |-> (Bit(a, k) + Bit(b, k)) % 2])
BitwiseOr(a, b) == FromBits([k \in 0..63 |-> IF Bit(a, k) + Bit(b, k) > 0 THEN 1 ELSE 0])

\* CMD_AND, CMD_EOR and CMD_ORR.
ExecLogic ==
    \E cmd \in AtCursor :
    /\ Running(cmd, {"CMD_AND", "CMD_EOR", "CMD_ORR"})
    /\ LET a == fetch_number_value(variables, cmd.val_a, FALSE)
           b == fetch_number_value(variables, cmd.val_b, FALSE)
           result == IF cmd.type = "CMD_AND" THEN BitwiseAnd(a.value, b.value)
                     ELSE IF cmd.type = "CMD_EOR" THEN BitwiseXor(a.value, b.value)
                     ELSE BitwiseOr(a.value, b.value)
       IN  IF a.error \/ b.error
           THEN /\ had_error' = TRUE
                /\ Did("logic_error", variables)
                /\ UNCHANGED <<current, variables>>
           ELSE /\ variables' = [variables EXCEPT ![cmd.destination] = result]
                /\ current' = NextOf(current)
                /\ Did("logic", [variables EXCEPT ![cmd.destination] = result])
                /\ UNCHANGED had_error
    /\ UNCHANGED <<lexer, parser, label_map, flags, the_stack, mem, returned, calls, output, puts>>

\* ShiftAmountBad with 63 refused as well.
ShiftAmountBad_Refuses63(b) == b < 0 \/ b >= 63

\* The range check of the shift amount: b < 0 || b > 63.
ShiftAmountBad(b) == b < 0 \/ b > 63

\* CMD_LSL, CMD_LSR and CMD_ASR.
ExecShift ==
    \E cmd \in AtCursor :
    /\ Running(cmd, {"CMD_LSL", "CMD_LSR", "CMD_ASR"})
    /\ LET a == fetch_number_value(variables, cmd.val_a, FALSE)
           fb == fetch_number_value(variables, cmd.val_b, cmd.is_b_immediate)
           b == Clamp(fb.value)
           result == IF cmd.type = "CMD_LSL" THEN ShiftLeft(a.value, b)
                     ELSE IF cmd.type = "CMD_LSR" THEN LogicalShiftRight(a.value, b)
                     ELSE ArithmeticShiftRight(a.value, b)
       IN  IF a.error \/ fb.error \/ ShiftAmountBad(b)
           THEN /\ had_error' = TRUE
                /\ Did("shift_error", variables)
                /\ UNCHANGED <<current, variables>>
           ELSE /\ variables' = [variables EXCEPT ![cmd.destination] = result]
                /\ current' = NextOf(current)
                /\ Did("shift", [variables EXCEPT ![cmd.destination] = result])
                /\ UNCHANGED had_error
    /\ UNCHANGED <<lexer, parser, label_map, flags, the_stack, mem, returned, calls, output, puts>>

\* memcpy of the bytes read to the address of register d: byte j lands in
\* register d + (j - 1) \div 8. (Bytes past the last register would land in
\* the fields of the Interpreter behind the array; no load of the model
\* reaches that far.)
CopyToRegister(regs, d, bytes) ==
    [r \in DOMAIN regs |->
        [i \in WordIdx |->
            LET j == 8 * (r - d) + i
            IN  IF j >= 1 /\ j <= Len(bytes) THEN bytes[j] ELSE regs[r][i]]]

\* CMD_LOAD. The two fetches are not followed by a check of had_error, and the
\* byte count is not compared with the size of a register.
ExecLoad ==
    \E cmd \in AtCursor :
    /\ Running(cmd, {"CMD_LOAD"})
    /\ LET fo == fetch_number_value(variables, cmd.val_b, cmd.is_b_immediate)
           fb == fetch_number_value(variables, cmd.val_a, cmd.is_a_immediate)
           offset == Clamp(fo.value)
           bytes == Clamp(fb.value)
           zeroed == [variables EXCEPT ![cmd.destination] = W(0)]
           ld == mem_load(mem, offset, bytes)
           regs == IF ld.ok THEN CopyToRegister(zeroed, cmd.destination, ld.bytes)
                   ELSE zeroed
           failed == fo.error \/ fb.error \/ ~ld.ok
       IN  /\ variables' = regs
           /\ had_error' = failed
           /\ current' = IF failed THEN current ELSE NextOf(current)
           /\ Did(IF failed THEN "load_error" ELSE "load", regs)
    /\ UNCHANGED <<lexer, parser, label_map, flags, the_stack, mem, returned, calls, output, puts>>

\* PutBytes writing all the bytes or, when one would fall outside memory, none.
PutBytes_AllOrNothing(m, str, offset, i) ==
    IF offset < 0 \/ offset + Len(str) > MEM_CAPACITY THEN [mem |-> m, ok |-> FALSE]
    ELSE [mem |-> [a \in DOMAIN m |->
                     IF a >= offset /\ a < offset + Len(str) THEN str[a - offset + 1]
                     ELSE m[a]],
          ok |-> TRUE]

\* The loop of CMD_PUT from byte i of the string on: one mem_store per byte,
\* left at the first one that fails.
RECURSIVE PutBytes(_, _, _, _)
PutBytes(m, str, offset, i) ==
    IF i > Len(str) THEN [mem |-> m, ok |-> TRUE]
    ELSE LET st == mem_store(m, <<str[i]>>, offset + i - 1, 1)
         IN  IF ~st.ok THEN [mem |-> m, ok |-> FALSE]
             ELSE PutBytes(st.mem, str, offset, i + 1)

\* CMD_PUT. The literal of a parsed put is never NULL.
ExecPut ==
    \E cmd \in AtCursor :
    /\ Running(cmd, {"CMD_PUT"})
    /\ LET fo == fetch_number_value(variables, cmd.val_b, cmd.is_b_immediate)
           offset == Clamp(fo.value)
           put == PutBytes(mem, cmd.val_a \o <<0>>, offset, 1)
       IN  IF fo.error
           THEN /\ had_error' = TRUE
                /\ Did("put_error", variables)
                /\ UNCHANGED <<current, mem>>
           ELSE /\ mem' = put.mem
                /\ had_error' = ~put.ok
                /\ current' = IF put.ok THEN NextOf(current) ELSE current
                /\ Did(IF put.ok THEN "put" ELSE "put_error", variables)
    /\ UNCHANGED <<lexer, parser, label_map, variables, flags, the_stack, returned, calls, output, puts>>

\* to_binary_string with the truncation test one character early.
to_binary_string_OneShort(num, bit_string_size) ==
    IF num = W(0) THEN <<48, 98, 48>>
    ELSE LET highest_bit == CHOOSE k \in 0..63 :
                                Bit(num, k) = 1 /\ \A j \in (k + 1)..63 : Bit(num, j) = 0
             room == bit_string_size - 4
             written == IF highest_bit + 1 <= room THEN highest_bit + 1 ELSE room
         IN  <<48, 98>> \o [n \in 1..written |-> 48 + Bit(num, highest_bit + 1 - n)]

\* to_binary_string: '0', 'b', then "0" for zero, else the bits from the
\* highest set one down, a digit being written while index < size - 1.
to_binary_string(num, bit_string_size) ==
    IF num = W(0) THEN <<48, 98, 48>>
    ELSE LET highest_bit == CHOOSE k \in 0..63 :
                                Bit(num, k) = 1 /\ \A j \in (k + 1)..63 : Bit(num, j) = 0
             room == bit_string_size - 3
             written == IF highest_bit + 1 <= room THEN highest_bit + 1 ELSE room
         IN  <<48, 98>> \o [n \in 1..written |-> 48 + Bit(num, highest_bit + 1 - n)]

\* sizeof(bit_string) in print_base.
BitStringSize == 67

\* printf("0x%" PRIx64): the hexadecimal digits without leading zeros.
HexDigit(n) == IF n < 10 THEN 48 + n ELSE 87 + n

Nibble(w, k) == (w[(k \div 2) + 1] \div (IF k % 2 = 0 THEN 1 ELSE 16)) % 16

HexString(w) ==
    IF w = W(0) THEN <<48, 120, 48>>
    ELSE LET highest == CHOOSE k \in 0..15 :
                            Nibble(w, k) # 0 /\ \A j \in (k + 1)..15 : Nibble(w, j) = 0
         IN  <<48, 120>> \o [n \in 1..(highest + 1) |-> HexDigit(Nibble(w, highest + 1 - n))]

\* The remainder of the bytes 8..i of w (as a number) divided by 10, then
\* w / 10 and w % 10 on uint64_t.
RECURSIVE RemFrom(_, _)
RemFrom(w, i) == IF i > 8 THEN 0 ELSE (RemFrom(w, i + 1) * 256 + w[i]) % 10

Div10(w) == [i \in WordIdx |-> (RemFrom(w, i + 1) * 256 + w[i]) \div 10]

Mod10(w) == RemFrom(w, 1)

RECURSIVE UDecimal(_)
UDecimal(w) == IF w = W(0) THEN <<>> ELSE UDecimal(Div10(w)) \o <<48 + Mod10(w)>>

\* printf("%" PRId64): a '-' and the magnitude for a negative value.
DecimalString(w) ==
    IF w = W(0) THEN <<48>>
    ELSE IF IsNegative(w) THEN <<45>> \o UDecimal(Sub64(W(0), w))
    ELSE UDecimal(w)

\* The loop of print_base's string case from index i on, str the characters
\* read so far: one mem_load per character, up to MEM_CAPACITY - 1 of them.
RECURSIVE ReadString(_, _, _, _)
ReadString(m, offset, i, str) ==
    IF i >= MEM_CAPACITY - 1 THEN [str |-> str, ok |-> TRUE]
    ELSE LET ld == mem_load(m, offset + i, 1)
         IN  IF ~ld.ok THEN [str |-> str, ok |-> FALSE]
             ELSE IF ld.bytes[1] = 0 THEN [str |-> str, ok |-> TRUE]
             ELSE ReadString(m, offset, i + 1, Append(str, ld.bytes[1]))

\* print_base: the line printed and whether it returns true.
print_base(regs, m, cmd) ==
    LET fv == fetch_number_value(regs, cmd.val_a, cmd.is_a_immediate)
        value == fv.value
        base == cmd.val_b
        rd == ReadString(m, Clamp(value), 0, <<>>)
    IN  IF fv.error THEN [line |-> <<>>, ok |-> FALSE]
        ELSE IF base = Base_d THEN [line |-> <<DecimalString(value)>>, ok |-> TRUE]
        ELSE IF base = Base_b
        THEN [line |-> <<to_binary_string(value, BitStringSize)>>, ok |-> TRUE]
        ELSE IF base = Base_x THEN [line |-> <<HexString(value)>>, ok |-> TRUE]
        ELSE IF base = Base_s
        THEN IF rd.ok THEN [line |-> <<rd.str>>, ok |-> TRUE]
             ELSE [line |-> <<>>, ok |-> FALSE]
        ELSE [line |-> <<>>, ok |-> FALSE]

\* CMD_PRINT.
ExecPrint ==
    \E cmd \in AtCursor :
    /\ Running(cmd, {"CMD_PRINT"})
    /\ LET pr == print_base(variables, mem, cmd)
       IN  /\ output' = output \o pr.line
           /\ had_error' = ~pr.ok
           /\ current' = IF pr.ok THEN NextOf(current) ELSE current
           /\ Did(IF pr.ok THEN "print" ELSE "print_error", variables)
    /\ UNCHANGED <<lexer, parser, label_map, variables, flags, the_stack, mem, returned, calls, puts>>

\* IsLocalLabel comparing three characters, so the terminating NUL too.
IsLocalLabel_WholeName(label) == StrNEq(label, Str_dotL, 3)

\* IsLocalLabel comparing no character at all.
IsLocalLabel_NoChars(label) == StrNEq(label, Str_dotL, 0)

\* strncmp(label, ".L", 2) == 0
IsLocalLabel(label) == StrNEq(label, Str_dotL, 2)

\* CMD_BRANCH.
ExecBranch ==
    \E cmd \in AtCursor :
    /\ Running(cmd, {"CMD_BRANCH"})
    /\ LET label == cmd.val_a
           entry == get_label(label_map, label)
       IN  IF cond_holds(cmd.branch_condition)
           THEN IF entry = <<>>
                THEN IF IsLocalLabel(label)
                     THEN /\ current' = 0
                          /\ Did("branch_local_end", variables)
                          /\ UNCHANGED <<had_error, output>>
                     ELSE /\ had_error' = TRUE
                          /\ Did("branch_error", variables)
                          /\ output' = Append(output, printf_LabelNotFound(label))
                          /\ UNCHANGED current
                ELSE /\ current' = entry[1].command
                     /\ Did("branch_taken", variables)
                     /\ UNCHANGED <<had_error, output>>
           ELSE /\ current' = NextOf(current)
                /\ Did("branch_not_taken", variables)
                /\ UNCHANGED <<had_error, output>>
    /\ UNCHANGED <<lexer, parser, label_map, variables, flags, the_stack, mem, returned, calls, puts>>

\* SaveFrame with the return address set to the CALL itself.
SaveFrame_ResumeAtCall(regs, at) == [variables |-> regs, command |-> at]

\* The frame CMD_CALL fills in: all registers and the return address.
SaveFrame(regs, at) == [variables |-> regs, command |-> NextOf(at)]

\* ExecCall with CMD_BRANCH's local-label exemption copied into it.
ExecCall_LocalExempt ==
    \E cmd \in AtCursor :
    /\ Running(cmd, {"CMD_CALL"})
    /\ LET label == cmd.val_a
           target == get_label(label_map, label)
       IN  IF target = <<>>
           THEN IF IsLocalLabel(label)
                THEN /\ current' = 0
                     /\ Did("call_local_end", variables)
                     /\ UNCHANGED <<had_error, the_stack, calls, output>>
                ELSE /\ had_error' = TRUE
                     /\ Did("call_error", variables)
                     /\ UNCHANGED <<current, the_stack, calls>>
                     /\ output' = Append(output, printf_LabelNotFound(label))
           ELSE IF Len(the_stack) >= MaxStack
           THEN /\ had_error' = TRUE
                /\ Did("call_nomem", variables)
                /\ UNCHANGED <<current, the_stack, calls, output>>
           ELSE /\ the_stack' = <<SaveFrame(variables, current)>> \o the_stack
                /\ current' = target[1].command
                /\ calls' = <<[variables |-> variables, at |-> current]>> \o calls
                /\ Did("call", variables)
                /\ UNCHANGED <<had_error, output>>
    /\ UNCHANGED <<lexer, parser, label_map, variables, flags, mem, returned, puts>>

\* CMD_CALL. malloc returns NULL once the heap holds MaxStack frames.
ExecCall ==
    \E cmd \in AtCursor :
    /\ Running(cmd, {"CMD_CALL"})
    /\ LET label == cmd.val_a
           target == get_label(label_map, label)
       IN  IF target = <<>>
           THEN /\ had_error' = TRUE
                /\ Did("call_error", variables)
                /\ UNCHANGED <<current, the_stack, calls>>
                /\ output' = Append(output, printf_LabelNotFound(label))
           ELSE IF Len(the_stack) >= MaxStack
           THEN /\ had_error' = TRUE
                /\ Did("call_nomem", variables)
                /\ UNCHANGED <<current, the_stack, calls, output>>
           ELSE /\ the_stack' = <<SaveFrame(variables, current)>> \o the_stack
                /\ current' = target[1].command
                /\ calls' = <<[variables |-> variables, at |-> current]>> \o calls
                /\ Did("call", variables)
                /\ UNCHANGED <<had_error, output>>
    /\ UNCHANGED <<lexer, parser, label_map, variables, flags, mem, returned, puts>>

\* RestoreRegs with the copy starting one register too late.
RestoreRegs_FromSecond(regs, frame) ==
    [i \in DOMAIN regs |-> IF i <= 1 THEN regs[i] ELSE frame.variables[i]]

\* RestoreRegs with the copy covering register 0 too.
RestoreRegs_All(regs, frame) == frame.variables

\* The registers after CMD_RET's memcpy from the popped frame.
RestoreRegs(regs, frame) ==
    [i \in DOMAIN regs |-> IF i = 0 THEN regs[0] ELSE frame.variables[i]]

\* ExecRet with the condition flags cleared when a frame is popped.
ExecRet_ClearsFlags ==
    \E cmd \in AtCursor :
    /\ Running(cmd, {"CMD_RET"})
    /\ IF the_stack = <<>>
       THEN /\ current' = 0
            /\ Did("ret_empty", variables)
            /\ UNCHANGED <<variables, the_stack, calls, flags>>
       ELSE /\ the_stack' = Tail(the_stack)
            /\ variables' = RestoreRegs(variables, Head(the_stack))
            /\ current' = Head(the_stack).command
            /\ calls' = Tail(calls)
            /\ is_greater' = FALSE
            /\ is_equal' = FALSE
            /\ is_less' = FALSE
            /\ Did("ret_pop", RestoreRegs(variables, Head(the_stack)))
    /\ UNCHANGED <<lexer, parser, label_map, had_error, mem, returned, output, puts>>

\* ExecRet with a RET on an empty stack treated as an error.
ExecRet_EmptyStackFails ==
    \E cmd \in AtCursor :
    /\ Running(cmd, {"CMD_RET"})
    /\ IF the_stack = <<>>
       THEN /\ had_error' = TRUE
            /\ Did("ret_empty", variables)
            /\ UNCHANGED <<current, variables, the_stack, calls>>
       ELSE /\ the_stack' = Tail(the_stack)
            /\ variables' = RestoreRegs(variables, Head(the_stack))
            /\ current' = Head(the_stack).command
            /\ calls' = Tail(calls)
            /\ Did("ret_pop", RestoreRegs(variables, Head(the_stack)))
            /\ UNCHANGED had_error
    /\ UNCHANGED <<lexer, parser, label_map, flags, mem, returned, output, puts>>

\* CMD_RET.
ExecRet ==
    \E cmd \in AtCursor :
    /\ Running(cmd, {"CMD_RET"})
    /\ IF the_stack = <<>>
       THEN /\ current' = 0
            /\ Did("ret_empty", variables)
            /\ UNCHANGED <<variables, the_stack, calls>>
       ELSE /\ the_stack' = Tail(the_stack)
            /\ variables' = RestoreRegs(variables, Head(the_stack))
            /\ current' = Head(the_stack).command
            /\ calls' = Tail(calls)
            /\ Did("ret_pop", RestoreRegs(variables, Head(the_stack)))
    /\ UNCHANGED <<lexer, parser, label_map, flags, had_error, mem, returned, output, puts>>

\* FreeStack with an `if` for the `while`: the top frame only.
FreeStack_TopOnly(stack) == IF stack = <<>> THEN <<>> ELSE Tail(stack)

\* The frames the loop's end frees.
FreeStack(stack) == <<>>

\* Return with the frames unwound the way RET pops them, registers restored.
Return_Unwinds ==
    /\ ~returned
    /\ current = 0 \/ had_error
    /\ the_stack' = FreeStack(the_stack)
    /\ variables' = IF the_stack = <<>> THEN variables
                    ELSE RestoreRegs(variables, the_stack[Len(the_stack)])
    /\ returned' = TRUE
    /\ Did("return", variables)
    /\ UNCHANGED <<lexer, parser, commands, label_map, current, flags, had_error, mem, calls, output, puts>>

\* The end of interpret: the loop is left (or never entered, on an empty list)
\* and the stack is freed.
Return ==
    /\ ~returned
    /\ current = 0 \/ had_error
    /\ the_stack' = FreeStack(the_stack)
    /\ returned' = TRUE
    /\ Did("return", variables)
    /\ UNCHANGED <<lexer, parser, commands, label_map, current, variables, flags, had_error, mem, calls, output, puts>>

Next ==
    \/ ExecMov
    \/ ExecCmp
    \/ ExecStore
    \/ ExecBranch
    \/ ExecCall
    \/ ExecRet
    \/ Return

Spec == Init /\ [][Next]_vars

\* The same with interpret going on while it has a step to take: it is one
\* thread that nothing stops, so a step that can be taken is taken.
FairSpec == Spec /\ WF_vars(Next)

\* ------------------------------------------------- single instructions

\* The values x1 and x2 hold when the instruction under study is reached.
Bytes1to8 == [i \in WordIdx |-> i]

OperandValues == {W(0), W(1), W(0 - 1), W(63), W(64), MaxInt64, MinInt64, Bytes1to8}

\* The command lists of these runs: one instruction, or a round trip.
OpPrograms ==
    {<<c>> : c \in AluInstrs \cup MemInstrs \cup PrintInstrs} \cup RoundTrips

\* Memory as earlier stores left it: byte a holds a + 1, the last byte 0.
MemImage == [a \in 0..(MEM_CAPACITY - 1) |-> IF a = LastByte THEN 0 ELSE a + 1]

\* A run at its first command with x1 and x2 holding any two of the operand
\* values, x3 holding 9 and the other registers 0.
InitOps ==
    /\ lexer = LexerDone
    /\ parser = ParserIdle
    /\ commands \in OpPrograms
    /\ label_map = label_map_init(LabelCapacity)
    /\ current = 1
    /\ \E a \in OperandValues, b \in OperandValues :
          variables = [i \in 0..(NUM_VARIABLES - 1) |->
                          IF i = 1 THEN a ELSE IF i = 2 THEN b
                          ELSE IF i = 3 THEN W(9) ELSE W(0)]
    /\ is_greater = FALSE
    /\ is_equal = FALSE
    /\ is_less = FALSE
    /\ had_error = FALSE
    /\ the_stack = <<>>
    /\ mem = MemImage
    /\ returned = FALSE
    /\ output = <<>>
    /\ puts = <<>>
    /\ calls = <<>>
    /\ last = [kind |-> "init", at |-> 0, depth |-> 0, changed |-> {}, before |-> <<>>]

NextOps ==
    \/ ExecMov
    \/ ExecAddSub
    \/ ExecCmp
    \/ ExecShift
    \/ ExecLoad
    \/ ExecStore
    \/ ExecPut
    \/ ExecPrint
    \/ Return

SpecOps == InitOps /\ [][NextOps]_vars

\* ------------------------------------------------- the label table alone

\* The names put and looked up: "ab" and "ba" have the same hash.
LabelNames == {Str_ab, Str_ba, Str_f}

\* A new table of any capacity from 1 up, and two commands for the labels to
\* name; nothing runs.
InitLabel ==
    /\ lexer = LexerDone
    /\ parser = ParserIdle
    /\ commands = <<Unread, Unread>>
    /\ \E capacity \in 1..LabelCapacity : label_map = label_map_init(capacity)
    /\ current = 0
    /\ variables = [i \in 0..(NUM_VARIABLES - 1) |-> W(0)]
    /\ is_greater = FALSE
    /\ is_equal = FALSE
    /\ is_less = FALSE
    /\ had_error = FALSE
    /\ the_stack = <<>>
    /\ mem = [a \in 0..(MEM_CAPACITY - 1) |-> 0]
    /\ returned = FALSE
    /\ output = <<>>
    /\ puts = <<>>
    /\ calls = <<>>
    /\ last = [kind |-> "init"]

\* A call of put_label; the history keeps its arguments and its result.
PutLabel ==
    \E id \in LabelNames, command \in 1..Len(commands) :
    /\ Len(puts) < MaxPuts
    /\ LET r == put_label(label_map, id, command)
       IN  /\ label_map' = r.map
           /\ puts' = Append(puts, [id |-> id, command |-> command, ok |-> r.ok])
           /\ last' = [kind |-> "put_label", id |-> id, ok |-> r.ok]
    /\ UNCHANGED <<lexer, parser, commands, current, variables, flags, had_error, the_stack, mem,
                   returned, output, calls>>

\* A call of get_label; the history keeps its argument and its result.
GetLabel ==
    \E id \in LabelNames :
    /\ last' = [kind |-> "get_label", id |-> id, entry |-> get_label(label_map, id)]
    /\ UNCHANGED <<lexer, parser, commands, label_map, current, variables, flags, had_error, the_stack,
                   mem, returned, output, puts, calls>>

NextLabel ==
    \/ PutLabel
    \/ GetLabel

SpecLabel == InitLabel /\ [][NextLabel]_vars

\* ------------------------------------------------- branches and flags

\* interpreter_init and interpret's `current = commands` on a list of one to
\* MaxProgLen commands, f naming one of them or not defined.
InitBranch ==
    /\ lexer = LexerDone
    /\ parser = ParserIdle
    /\ \E n \in 1..MaxProgLen : \E pf \in 0..n :
          /\ commands = [p \in 1..n |-> UnreadJump]
          /\ label_map = IF pf = 0 THEN label_map_init(LabelCapacity)
                         ELSE put_label(label_map_init(LabelCapacity), Str_f, pf).map
    /\ current = 1
    /\ variables = [i \in 0..(NUM_VARIABLES - 1) |-> W(0)]
    /\ is_greater = FALSE
    /\ is_equal = FALSE
    /\ is_less = FALSE
    /\ had_error = FALSE
    /\ the_stack = <<>>
    /\ mem = [a \in 0..(MEM_CAPACITY - 1) |-> 0]
    /\ returned = FALSE
    /\ output = <<>>
    /\ puts = <<>>
    /\ calls = <<>>
    /\ last = [kind |-> "init", at |-> 0, depth |-> 0, changed |-> {}, before |-> <<>>]

NextBranch ==
    \/ ExecMov
    \/ ExecCmp
    \/ ExecBranch
    \/ Return

SpecBranch == InitBranch /\ [][NextBranch]_vars

\* ------------------------------------------------- the parser's statements

\* The decimal digits of n, and the register token `x` followed by them.
RECURSIVE Decimal(_)
Decimal(n) == IF n < 10 THEN <<48 + n>> ELSE Decimal(n \div 10) \o <<48 + (n % 10)>>

X(n) == Ident(<<120>> \o Decimal(n))

\* One statement of each instruction kind, without its terminator: `mov x0 5`,
\* `add x1 x0 x1`, `sub x1 x0 1`, `cmp x1 x0`, `cmp_u x1 1`, `print x1 d`,
\* `load x1 1 0`, `store x1 0 1`, `put "f" 0`, `call f`, `ret`,
\* `and|eor|orr x1 x0 x1`, `lsl|lsr|asr x1 x0 1` and the seven branches to f.
OneLiners ==
    {<<Keyword("TOK_MOV"), X(0), Num(<<53>>)>>,
     <<Keyword("TOK_ADD"), X(1), X(0), X(1)>>,
     <<Keyword("TOK_SUB"), X(1), X(0), Num(<<49>>)>>,
     <<Keyword("TOK_CMP"), X(1), X(0)>>,
     <<Keyword("TOK_CMP_U"), X(1), Num(<<49>>)>>,
     <<Keyword("TOK_PRINT"), X(1), Ident(<<100>>)>>,
     <<Keyword("TOK_LOAD"), X(1), Num(<<49>>), Num(<<48>>)>>,
     <<Keyword("TOK_STORE"), X(1), Num(<<48>>), Num(<<49>>)>>,
     <<Keyword("TOK_PUT"), StrLit(Str_f), Num(<<48>>)>>,
     <<Keyword("TOK_CALL"), Ident(Str_f)>>,
     <<Keyword("TOK_RET")>>}
    \cup {<<Keyword(k), X(1), X(0), X(1)>> : k \in {"TOK_AND", "TOK_EOR", "TOK_ORR"}}
    \cup {<<Keyword(k), X(1), X(0), Num(<<49>>)>> : k \in {"TOK_LSL", "TOK_LSR", "TOK_ASR"}}
    \cup {<<Keyword(k), Ident(Str_f)>> :
             k \in {"TOK_BRANCH", "TOK_BRANCH_EQ", "TOK_BRANCH_GE", "TOK_BRANCH_GT",
                    "TOK_BRANCH_LE", "TOK_BRANCH_LT", "TOK_BRANCH_NEQ"}}

\* A statement with a newline after its first k tokens, and the statements of
\* OneLiners broken so at each place between the keyword and the last operand.
BreakAfter(toks, k) == SubSeq(toks, 1, k) \o <<NL>> \o SubSeq(toks, k + 1, Len(toks))

BrokenLines ==
    UNION {{BreakAfter(toks, k) \o <<NL>> : k \in 1..(Len(toks) - 1)} : toks \in OneLiners}

\* A label prefix `id:` before a statement.
Labelled(id, toks) == <<Ident(id), Colon>> \o toks

\* Statements the parser accepts, each with its newline: `mov x0 5`, `ret`,
\* `f: ret`, `f:` with `mov x1 7` on the next line, `ab: ba: cmp x1 x0`.
GoodLines ==
    {<<Keyword("TOK_MOV"), X(0), Num(<<53>>), NL>>,
     <<Keyword("TOK_RET"), NL>>,
     Labelled(Str_f, <<Keyword("TOK_RET"), NL>>),
     Labelled(Str_f, <<NL, Keyword("TOK_MOV"), X(1), Num(<<55>>), NL>>),
     Labelled(Str_ab, Labelled(Str_ba, <<Keyword("TOK_CMP"), X(1), X(0), NL>>))}

\* Statements with an error: `mov 5 x0`, `mov x32 5`, `mov x 5`, `mov x0 0b2`,
\* `mov x0 5 5`, `ret ret`, `5`, `f`, `:`, `f: mov x32 5`, `put x0 0`,
\* `call 5`, `print x1 5`.
BadLines ==
    {<<Keyword("TOK_MOV"), Num(<<53>>), X(0), NL>>,
     <<Keyword("TOK_MOV"), X(32), Num(<<53>>), NL>>,
     <<Keyword("TOK_MOV"), Ident(<<120>>), Num(<<53>>), NL>>,
     <<Keyword("TOK_MOV"), X(0), Num(<<48, 98, 50>>), NL>>,
     <<Keyword("TOK_MOV"), X(0), Num(<<53>>), Num(<<53>>), NL>>,
     <<Keyword("TOK_RET"), Keyword("TOK_RET"), NL>>,
     <<Num(<<53>>), NL>>,
     <<Ident(Str_f), NL>>,
     <<Colon, NL>>,
     Labelled(Str_f, <<Keyword("TOK_MOV"), X(32), Num(<<53>>), NL>>),
     <<Keyword("TOK_PUT"), X(0), Num(<<48>>), NL>>,
     <<Keyword("TOK_CALL"), Num(<<53>>), NL>>,
     <<Keyword("TOK_PRINT"), X(1), Num(<<53>>), NL>>}

\* The ends of a source text: `ret`, `f: ret`, `mov x0`, `f:` and a blank line,
\* each followed by the end of input, and `f:` with a blank line after it.
LastLines ==
    {<<Keyword("TOK_RET"), EOF>>,
     Labelled(Str_f, <<Keyword("TOK_RET"), EOF>>),
     <<Keyword("TOK_MOV"), X(0), EOF>>,
     Labelled(Str_f, <<EOF>>),
     <<NL, EOF>>,
     Labelled(Str_f, <<NL, EOF>>)}

\* The statements of a source text that is read as it comes.
Statements == GoodLines \cup BrokenLines \cup BadLines \cup LastLines

\* ---------------------------------------------------------------- parse

\* The statements the lexer can deliver next: the next one pending, the end of
\* input after the last, or, of an open text, any statement (up to MaxProgLen
\* of them) and the end of input.
NextStatements ==
    IF lexer.open
    THEN (IF Len(parser.read) < MaxProgLen THEN Statements ELSE {}) \cup {<<EOF>>}
    ELSE IF lexer.pending = <<>> THEN {<<EOF>>}
    ELSE {Head(lexer.pending)}

\* One turn of parse_commands' loop: parse_cmd on the statement toks, its
\* command linked to the list's tail; on NULL the loop is left and the list
\* returned.
ParseCmd ==
    \E toks \in NextStatements :
    /\ ~parser.returned
    /\ ~parser.had_error
    /\ ~parser.at_end
    /\ toks # <<EOF>>
    /\ LET Linked(r) ==
               /\ commands' = IF r.cmd = NULL THEN commands ELSE Append(commands, r.cmd)
               /\ label_map' = r.map
               /\ puts' = puts \o r.puts
               /\ parser' = [parser EXCEPT !.had_error = r.had_error,
                                           !.at_end = (At(toks, r.pos).type = "TOK_EOF"),
                                           !.returned = (r.cmd = NULL),
                                           !.read = Append(@, toks)]
       IN  Linked(parse_cmd(toks, 1, label_map, Len(commands) + 1))
    /\ lexer' = IF lexer.open THEN lexer ELSE [lexer EXCEPT !.pending = Tail(@)]
    /\ last' = [kind |-> "parse_cmd", at |-> 0, depth |-> 0, changed |-> {}, before |-> <<>>]
    /\ UNCHANGED <<current, variables, flags, had_error, the_stack, mem, returned, output,
                   calls>>

\* parse_commands' loop condition fails, had_error being set or the current
\* token the end of input, and the list is returned.
ParseReturn ==
    /\ ~parser.returned
    /\ parser.had_error \/ parser.at_end \/ <<EOF>> \in NextStatements
    /\ parser' = [parser EXCEPT !.returned = TRUE,
                                !.at_end = IF parser.had_error THEN @ ELSE TRUE]
    /\ last' = [kind |-> "parse_return", at |-> 0, depth |-> 0, changed |-> {}, before |-> <<>>]
    /\ UNCHANGED <<lexer, commands, label_map, current, variables, flags, had_error, the_stack,
                   mem, returned, output, puts, calls>>

\* The list parse_commands returned is handed to interpret, which returns at
\* once if it is empty and starts at its head otherwise.
Interpret ==
    /\ parser.returned
    /\ ~parser.handed
    /\ parser' = [parser EXCEPT !.handed = TRUE]
    /\ current' = IF commands = <<>> THEN 0 ELSE 1
    /\ returned' = (commands = <<>>)
    /\ last' = [kind |-> "interpret", at |-> 0, depth |-> 0, changed |-> {}, before |-> <<>>]
    /\ UNCHANGED <<lexer, commands, label_map, variables, flags, had_error, the_stack, mem,
                   output, puts, calls>>

\* parser_init on a lexer, label_map_init and interpreter_init: nothing is
\* parsed and interpret is still to be called.
ParserInit(lx) ==
    /\ lexer = lx
    /\ parser = [had_error |-> FALSE, at_end |-> FALSE, returned |-> FALSE, handed |-> FALSE,
                 read |-> <<>>]
    /\ commands = <<>>
    /\ label_map = label_map_init(LabelCapacity)
    /\ current = 0
    /\ variables = [i \in 0..(NUM_VARIABLES - 1) |-> W(0)]
    /\ is_greater = FALSE
    /\ is_equal = FALSE
    /\ is_less = FALSE
    /\ had_error = FALSE
    /\ the_stack = <<>>
    /\ mem = [a \in 0..(MEM_CAPACITY - 1) |-> 0]
    /\ returned = TRUE
    /\ output = <<>>
    /\ puts = <<>>
    /\ calls = <<>>
    /\ last = [kind |-> "init", at |-> 0, depth |-> 0, changed |-> {}, before |-> <<>>]

\* The parser on a source text read as it comes.
InitParse == ParserInit([open |-> TRUE, pending |-> <<>>])

NextParse ==
    \/ ParseCmd
    \/ ParseReturn

SpecParse == InitParse /\ [][NextParse]_vars

\* ------------------------------------------------- operand tokens alone

\* The largest n of a register token `xn` tried.
MaxRegisterToken == 40

\* Lexemes after an `x`: every string of up to two of the characters
\* 0 1 3 9 - + a x, and 100, 031, -31, -32, 1a0, 0x1.
Suffixes ==
    LET Chars == {48, 49, 51, 57, 45, 43, 97, 120}
    IN  {<<>>} \cup {<<c>> : c \in Chars} \cup {<<c, d>> : c \in Chars, d \in Chars}
        \cup {<<49, 48, 48>>, <<48, 51, 49>>, <<45, 51, 49>>, <<45, 51, 50>>,
              <<49, 97, 48>>, <<48, 120, 49>>}

\* Numeric lexemes: 0x1A 0x1a 0b101 0b11010 26 026 0x 0b 0b2 0xg 12a 5 0 0x0 1A.
Numerals ==
    {<<48, 120, 49, 65>>, <<48, 120, 49, 97>>, <<48, 98, 49, 48, 49>>,
     <<48, 98, 49, 49, 48, 49, 48>>, <<50, 54>>, <<48, 50, 54>>, <<48, 120>>, <<48, 98>>,
     <<48, 98, 50>>, <<48, 120, 103>>, <<49, 50, 97>>, <<53>>, <<48>>, <<48, 120, 48>>,
     <<49, 65>>}

\* The tokens an operand parser is tried on: `x0`..`x40`, `x` with each of
\* Suffixes, the numerals as numbers and as identifiers, `f`, `y1`, a number
\* spelt `x1`, a keyword and a newline.
OperandTokens ==
    {X(n) : n \in 0..MaxRegisterToken}
    \cup {Ident(<<120>> \o s) : s \in Suffixes}
    \cup {Num(s) : s \in Numerals}
    \cup {Ident(s) : s \in Numerals}
    \cup {Ident(Str_f), Ident(<<121, 49>>), Num(<<120, 49>>), Keyword("TOK_MOV"), NL}

\* The parser with one token as its current one.
InitToken ==
    \E token \in OperandTokens : ParserInit([open |-> FALSE, pending |-> <<<<token>>>>])

\* A call of parse_variable_operand on the current token; the parser advances
\* past a token that parsed. The history keeps the token and the result.
ParseVariableOperand ==
    /\ lexer.pending # <<>>
    /\ LET token == lexer.pending[1][1]
           Tried(r) ==
               /\ last' = [kind |-> "parse_variable_operand", token |-> token,
                           ok |-> r.ok, num_val |-> r.num_val]
               /\ lexer' = IF r.ok THEN [lexer EXCEPT !.pending = <<>>] ELSE lexer
       IN  Tried(parse_variable_operand(token, 0))
    /\ UNCHANGED <<parser, commands, label_map, current, variables, flags, had_error,
                   the_stack, mem, returned, output, puts, calls>>

\* A call of parse_im on the current token, which it leaves the current one.
ParseIm ==
    /\ lexer.pending # <<>>
    /\ LET token == lexer.pending[1][1]
           Tried(r) ==
               last' = [kind |-> "parse_im", token |-> token, ok |-> r.ok,
                        num_val |-> r.num_val]
       IN  Tried(parse_im(token, 0))
    /\ UNCHANGED <<lexer, parser, commands, label_map, current, variables, flags, had_error,
                   the_stack, mem, returned, output, puts, calls>>

NextToken ==
    \/ ParseVariableOperand
    \/ ParseIm

SpecToken == InitToken /\ [][NextToken]_vars

\* ------------------------------------------------- whole programs

\* The largest number of lines of a program text that is parsed and then run.
MaxTextLen == 3

\* The lines of these texts: `mov x0 5`, `add x1 x0 x31`, `cmp x1 x0`,
\* `f: cmp_u x31 1`, `eor x1 x0 x31`, `lsl x1 x0 1`, `store x0 0 1`,
\* `load x31 1 0`, `put "f" 0`, `print x31 d`, `call f`, `bgt f`, `ret` and
\* `mov x32 5` (no register). Where no line defines f the call and the branch
\* fail.
RunLines ==
    {<<Keyword("TOK_MOV"), X(0), Num(<<53>>), NL>>,
     <<Keyword("TOK_ADD"), X(1), X(0), X(31), NL>>,
     <<Keyword("TOK_CMP"), X(1), X(0), NL>>,
     Labelled(Str_f, <<Keyword("TOK_CMP_U"), X(31), Num(<<49>>), NL>>),
     <<Keyword("TOK_EOR"), X(1), X(0), X(31), NL>>,
     <<Keyword("TOK_LSL"), X(1), X(0), Num(<<49>>), NL>>,
     <<Keyword("TOK_STORE"), X(0), Num(<<48>>), Num(<<49>>), NL>>,
     <<Keyword("TOK_LOAD"), X(31), Num(<<49>>), Num(<<48>>), NL>>,
     <<Keyword("TOK_PUT"), StrLit(Str_f), Num(<<48>>), NL>>,
     <<Keyword("TOK_PRINT"), X(31), Ident(<<100>>), NL>>,
     <<Keyword("TOK_CALL"), Ident(Str_f), NL>>,
     <<Keyword("TOK_BRANCH_GT"), Ident(Str_f), NL>>,
     <<Keyword("TOK_RET"), NL>>,
     <<Keyword("TOK_MOV"), X(32), Num(<<53>>), NL>>}

\* The program texts: up to MaxTextLen lines, each any of RunLines.
ProgramTexts == UNION {[1..n -> RunLines] : n \in 1..MaxTextLen}

\* parser_init on a lexer that holds one of the program texts.
InitProgram == \E text \in ProgramTexts : ParserInit([open |-> FALSE, pending |-> text])

\* parse_commands on the text, then interpret on the list it returned.
NextProgram ==
    \/ ParseCmd
    \/ ParseReturn
    \/ Interpret
    \/ ExecMov
    \/ ExecAddSub
    \/ ExecLogic
    \/ ExecCmp
    \/ ExecShift
    \/ ExecLoad
    \/ ExecStore
    \/ ExecPut
    \/ ExecPrint
    \/ ExecBranch
    \/ ExecCall
    \/ ExecRet
    \/ Return

SpecProgram == InitProgram /\ [][NextProgram]_vars

\* ---------------------------------------------------------------- properties

Registers == 0..(NUM_VARIABLES - 1)

\* The step executes the command under the cursor, of the given type.
Executes(type) ==
    /\ ~returned
    /\ current # 0
    /\ ~had_error
    /\ commands'[current].type = type

\* The label of the command the step executes.
StepLabel == commands'[current].val_a

\* The table holds an entry of exactly this name, in whatever bucket.
Defined(map, id) ==
    \E b \in DOMAIN map : \E k \in 1..Len(map[b]) : map[b][k].id = id

\* The name starts with the characters '.' and 'L'.
BeginsDotL(id) == Len(id) >= 2 /\ id[1] = 46 /\ id[2] = 76

\* The branch condition of the command the step executes holds of the flags.
ConditionHolds ==
    LET c == commands'[current].branch_condition
    IN  \/ c = "BRANCH_ALWAYS"
        \/ c = "BRANCH_EQUAL" /\ is_equal
        \/ c = "BRANCH_NOT_EQUAL" /\ ~is_equal
        \/ c = "BRANCH_GREATER" /\ is_greater
        \/ c = "BRANCH_LESS" /\ is_less
        \/ c = "BRANCH_GREATER_EQUAL" /\ (is_greater \/ is_equal)
        \/ c = "BRANCH_LESS_EQUAL" /\ (is_less \/ is_equal)

\* The command after position p in program order, NULL (0) after the last.
InOrderNext(p) == IF p = Len(commands) THEN 0 ELSE p + 1

\* C1: a RET that pops a frame leaves each of the registers 1..31 with the value
\* it had just before the matching CALL (the most recent CALL not yet returned
\* from), whatever was written to it since; so N nested CALLs followed by their
\* N RETs restore registers 1..31, for every N.
C1_RetRestoresCallerRegisters ==
    [][(Executes("CMD_RET") /\ the_stack # <<>>) =>
         \A i \in Registers \ {0} : variables'[i] = Head(calls).variables[i]]_vars

\* A RET has popped a frame and undone a write of the callee to register 1.
C1_Witness ==
    /\ last.kind = "ret_pop"
    /\ 1 \in last.changed
    /\ variables[1] = last.before[1]

\* C2: a RET executed with a non-empty call stack leaves register 0 as it was
\* just before the RET.
C2_RetKeepsRegisterZero ==
    [][(Executes("CMD_RET") /\ the_stack # <<>>) => variables'[0] = variables[0]]_vars

\* A RET has popped a frame whose saved register 0 differs from register 0.
C2_Witness ==
    /\ last.kind = "ret_pop"
    /\ variables[0] # last.before[0]
    /\ variables[0] = W(5)

\* C3: a RET with a non-empty stack pops exactly the top frame and moves the
\* cursor to the command after the most recent CALL not yet returned from; a
\* successful CALL pushes exactly one frame, on top, whose resume point is the
\* command after the CALL.
C3_CallStackIsLifo ==
    [][/\ (Executes("CMD_RET") /\ the_stack # <<>>) =>
             /\ the_stack' = Tail(the_stack)
             /\ current' = InOrderNext(Head(calls).at)
       /\ (Executes("CMD_CALL") /\ ~had_error') =>
             /\ Len(the_stack') = Len(the_stack) + 1
             /\ Tail(the_stack') = the_stack
             /\ Head(the_stack').command = InOrderNext(current)]_vars

\* The inner of two nested CALLs has returned to the command after it.
C3_Witness ==
    /\ last.kind = "ret_pop"
    /\ last.depth = 2
    /\ Len(the_stack) = 1
    /\ current # 0
    /\ commands[current - 1].type = "CMD_CALL"

\* C4: a RET executed with an empty call stack sets the cursor to NULL, leaves
\* the error flag unset and changes no register and no flag.
C4_RetOnEmptyStackHalts ==
    [][(Executes("CMD_RET") /\ the_stack = <<>>) =>
         /\ current' = 0
         /\ ~had_error'
         /\ variables' = variables
         /\ flags' = flags]_vars

\* A RET on an empty stack has ended a run that had set a register and a flag.
C4_Witness ==
    /\ last.kind = "ret_empty"
    /\ current = 0
    /\ variables[1] = W(7)
    /\ is_greater

\* C5: a BRANCH whose condition holds and whose label is not in the label table
\* but starts with ".L" sets the cursor to NULL and leaves the error flag unset,
\* with any number of call frames outstanding.
C5_LocalLabelBranchHalts ==
    [][(/\ Executes("CMD_BRANCH")
        /\ ConditionHolds
        /\ ~Defined(label_map, StepLabel)
        /\ BeginsDotL(StepLabel)) =>
         /\ current' = 0
         /\ ~had_error']_vars

\* A branch to the undefined label .Lx has ended a run inside a callee.
C5_Witness ==
    /\ last.kind = "branch_local_end"
    /\ last.depth >= 1
    /\ current = 0
    /\ ~had_error

\* C6: a BRANCH whose condition holds and whose label is not in the label table
\* and does not start with ".L" sets the error flag and leaves the cursor where
\* it is; from then on no command executes (the only step left is the return).
C6_UnresolvedBranchIsFatal ==
    [][/\ (/\ Executes("CMD_BRANCH")
           /\ ConditionHolds
           /\ ~Defined(label_map, StepLabel)
           /\ ~BeginsDotL(StepLabel)) =>
             /\ had_error'
             /\ current' = current
       /\ had_error => (last'.kind = "return" /\ commands' = commands)]_vars

\* A branch to the undefined label f has set the error flag.
C6_Witness ==
    /\ last.kind = "branch_error"
    /\ had_error
    /\ current = last.at
    /\ commands[current].val_a = Str_f

\* C7: a CALL whose label is not in the label table sets the error flag, pushes
\* no frame and changes no register, also when the label starts with ".L".
C7_UnresolvedCallIsFatal ==
    [][(Executes("CMD_CALL") /\ ~Defined(label_map, StepLabel)) =>
         /\ had_error'
         /\ the_stack' = the_stack
         /\ variables' = variables]_vars

\* A call of the undefined label .Lx has set the error flag.
C7_Witness ==
    /\ last.kind = "call_error"
    /\ had_error
    /\ BeginsDotL(commands[last.at].val_a)

\* C8: a BRANCH whose condition does not hold moves the cursor to the next
\* command in program order and raises no error, its label defined or not;
\* registers, flags and call stack are unchanged.
C8_BranchNotTakenFallsThrough ==
    [][(Executes("CMD_BRANCH") /\ ~ConditionHolds) =>
         /\ current' = InOrderNext(current)
         /\ ~had_error'
         /\ variables' = variables
         /\ flags' = flags
         /\ the_stack' = the_stack]_vars

\* A conditional branch to an undefined label was not taken.
C8_Witness ==
    /\ last.kind = "branch_not_taken"
    /\ ~Defined(label_map, commands[last.at].val_a)
    /\ ~had_error
    /\ current = InOrderNext(last.at)

\* C9: once the error flag is set it stays set, no command executes any more
\* (the only step left is the return, the cursor abandoned where it is), and
\* registers, condition flags and memory do not change again.
C9_NothingRunsAfterError ==
    [][had_error =>
         /\ had_error'
         /\ last'.kind = "return"
         /\ commands' = commands
         /\ current' = current
         /\ variables' = variables
         /\ flags' = flags
         /\ mem' = mem]_vars

\* A run that had written a register and memory and was inside a callee has
\* ended on an error.
C9_Witness ==
    /\ had_error
    /\ returned
    /\ last.depth >= 1
    /\ variables[1] = W(7)
    /\ mem[0] = 7

\* C10: when interpret has returned, with or without an error, the call stack
\* is empty.
C10_StackEmptyAtEnd == returned => the_stack = <<>>

\* A run has ended with two frames outstanding.
C10_Witness ==
    /\ returned
    /\ last.kind = "return"
    /\ last.depth = 2
    /\ the_stack = <<>>

\* ------------------------------------------------- 64-bit numbers

\* The number a word stands for, written in base 2^24: <<the low 24 bits, the
\* next 24 bits, the top 16 bits>>. Read as unsigned the top digit is in
\* 0..65535; read as signed (two's complement) it is in -32768..32767.
AsUnsigned(w) ==
    <<w[1] + 256 * w[2] + 65536 * w[3], w[4] + 256 * w[5] + 65536 * w[6], w[7] + 256 * w[8]>>

AsSigned(w) ==
    LET u == AsUnsigned(w)
    IN  <<u[1], u[2], IF u[3] >= 32768 THEN u[3] - 65536 ELSE u[3]>>

\* x > y for two numbers in base 2^24.
NumGreater(x, y) ==
    \/ x[3] > y[3]
    \/ x[3] = y[3] /\ x[2] > y[2]
    \/ x[3] = y[3] /\ x[2] = y[2] /\ x[1] > y[1]

\* The operands of the command the step executes: register val_a, and val_b
\* as a register or an immediate.
OperandA == variables[commands'[current].val_a]

OperandB ==
    IF commands'[current].is_b_immediate THEN W(commands'[current].val_b)
    ELSE variables[commands'[current].val_b]

\* C11: after CMP (signed) or CMP_U (unsigned) of a and b, greater is true iff
\* a > b under that reading, equal iff a = b, less = ~(greater \/ equal), so
\* exactly one flag is true; for a = -1 and b = 1 CMP sets less and CMP_U
\* sets greater.
C11_CompareSetsFlags ==
    [][(Executes("CMD_CMP") \/ Executes("CMD_CMP_U")) =>
         LET signed == Executes("CMD_CMP")
             x == IF signed THEN AsSigned(OperandA) ELSE AsUnsigned(OperandA)
             y == IF signed THEN AsSigned(OperandB) ELSE AsUnsigned(OperandB)
         IN  /\ is_greater' = NumGreater(x, y)
             /\ is_equal' = (OperandA = OperandB)
             /\ is_less' = ~(is_greater' \/ is_equal')
             /\ \/ is_greater' /\ ~is_equal' /\ ~is_less'
                \/ ~is_greater' /\ is_equal' /\ ~is_less'
                \/ ~is_greater' /\ ~is_equal' /\ is_less'
             /\ (OperandA = W(0 - 1) /\ OperandB = W(1)) =>
                    IF signed THEN is_less' ELSE is_greater']_vars

\* A CMP_U of x1 = -1 with x2 = 1 has set greater and nothing else.
C11_Witness ==
    /\ last.kind = "cmp"
    /\ commands[last.at] = CmdCmpU(1, 2)
    /\ variables[1] = W(0 - 1)
    /\ variables[2] = W(1)
    /\ is_greater /\ ~is_equal /\ ~is_less

\* (x + y) mod 2^64 for two unsigned numbers in base 2^24.
NumAdd(x, y) ==
    LET low == x[1] + y[1]
        mid == x[2] + y[2] + (low \div 16777216)
        top == x[3] + y[3] + (mid \div 16777216)
    IN  <<low % 16777216, mid % 16777216, top % 65536>>

\* C12: ADD and SUB never fail on overflow: the destination receives
\* (a + b) mod 2^64, respectively (a - b) mod 2^64 (the number that gives a
\* when b is added to it, mod 2^64), and the error flag stays unset; INT64_MAX
\* plus 1 gives INT64_MIN.
C12_AddSubWrapAround ==
    [][(Executes("CMD_ADD") \/ Executes("CMD_SUB")) =>
         LET r == variables'[commands'[current].destination]
         IN  /\ ~had_error'
             /\ Executes("CMD_ADD") =>
                    AsUnsigned(r) = NumAdd(AsUnsigned(OperandA), AsUnsigned(OperandB))
             /\ Executes("CMD_SUB") =>
                    NumAdd(AsUnsigned(r), AsUnsigned(OperandB)) = AsUnsigned(OperandA)
             /\ (Executes("CMD_ADD") /\ OperandA = MaxInt64 /\ OperandB = W(1)) =>
                    r = MinInt64]_vars

\* `add x3 x1 1` with x1 = INT64_MAX has left INT64_MIN in x3 and no error.
C12_Witness ==
    /\ last.kind = "addsub"
    /\ commands[last.at] = CmdArith("CMD_ADD", 3, 1, 1)
    /\ variables[1] = MaxInt64
    /\ variables[3] = MinInt64
    /\ ~had_error

\* x * 2^s mod 2^64, by doubling s times (a number that doubling leaves as it
\* is, 0, stays what it is).
RECURSIVE NumShiftLeft(_, _)
NumShiftLeft(x, s) ==
    IF s = 0 THEN x
    ELSE LET y == NumAdd(x, x)
         IN  IF y = x THEN x ELSE NumShiftLeft(y, s - 1)

\* x halved s times, the vacated top bit filled with `fill` each time (a
\* number that halving leaves as it is stays what it is).
RECURSIVE NumShiftRight(_, _, _)
NumShiftRight(x, s, fill) ==
    IF s = 0 THEN x
    ELSE LET y == <<(x[1] \div 2) + 8388608 * (x[2] % 2),
                    (x[2] \div 2) + 8388608 * (x[3] % 2),
                    (x[3] \div 2) + 32768 * fill>>
         IN  IF y = x THEN x ELSE NumShiftRight(y, s - 1, fill)

\* The shift amount of the step is one of 0..63, and then its value.
AmountInRange ==
    LET b == AsSigned(OperandB) IN b[3] = 0 /\ b[2] = 0 /\ b[1] <= 63

Amount == AsSigned(OperandB)[1]

\* C13: a shift (LSL, LSR, ASR) by an amount in 0..63, from a register or an
\* immediate, succeeds and writes the shifted value to the destination; an
\* amount of 64 or more, or a negative one, sets the error flag and leaves the
\* destination register unchanged.
C13_ShiftAmountRange ==
    [][(Executes("CMD_LSL") \/ Executes("CMD_LSR") \/ Executes("CMD_ASR")) =>
         LET d == commands'[current].destination
             a == AsUnsigned(OperandA)
         IN  IF AmountInRange
             THEN /\ ~had_error'
                  /\ AsUnsigned(variables'[d]) =
                        IF Executes("CMD_LSL") THEN NumShiftLeft(a, Amount)
                        ELSE IF Executes("CMD_LSR") THEN NumShiftRight(a, Amount, 0)
                        ELSE NumShiftRight(a, Amount, a[3] \div 32768)
             ELSE /\ had_error'
                  /\ variables'[d] = variables[d]]_vars

\* `lsl x3 x1 x2` with x1 = 1 and x2 = 63 has left the top bit alone in x3.
C13_Witness ==
    /\ last.kind = "shift"
    /\ commands[last.at] = RegB(CmdArith("CMD_LSL", 3, 1, 2))
    /\ variables[1] = W(1)
    /\ variables[2] = W(63)
    /\ variables[3] = MinInt64
    /\ ~had_error

\* The byte count of the STORE / LOAD the step executes (an immediate), its
\* offset as a signed number, and whether the byte range
\* [offset, offset + count) lies inside memory.
ByteCount == commands'[current].val_a

OffsetNum == AsSigned(OperandB)

RangeInside ==
    /\ ByteCount >= 0
    /\ OffsetNum[3] = 0
    /\ OffsetNum[2] = 0
    /\ OffsetNum[1] + ByteCount <= MEM_CAPACITY

\* C14: a STORE is fatal and changes no byte of memory when its byte count is
\* not one of 1, 2, 4, 8 or its byte range is not entirely inside memory
\* (offset + count beyond the capacity, or a negative offset); otherwise
\* exactly the count bytes from offset on are written, with the low bytes of
\* the register, and every other byte of memory is unchanged.
C14_StoreChecksSizeAndRange ==
    [][Executes("CMD_STORE") =>
         IF ByteCount \in {1, 2, 4, 8} /\ RangeInside
         THEN /\ ~had_error'
              /\ \A a \in DOMAIN mem :
                    mem'[a] = IF a >= OffsetNum[1] /\ a < OffsetNum[1] + ByteCount
                              THEN variables[commands'[current].destination][a - OffsetNum[1] + 1]
                              ELSE mem[a]
         ELSE /\ had_error'
              /\ mem' = mem]_vars

\* `store x1 x2 1` with x2 = -1 has set the error flag and left memory alone.
C14_Witness ==
    /\ last.kind = "store_error"
    /\ commands[last.at] = RegB(CmdStore(1, 2, 1))
    /\ variables[2] = W(0 - 1)
    /\ had_error
    /\ mem = MemImage

\* The low n bytes of an unsigned number in base 2^24, the rest zero; and
\* byte k (0 the least significant) of it.
LowBytes(x, n) ==
    <<IF n >= 3 THEN x[1] ELSE x[1] % (256 ^ n),
      IF n >= 6 THEN x[2] ELSE IF n <= 3 THEN 0 ELSE x[2] % (256 ^ (n - 3)),
      IF n >= 8 THEN x[3] ELSE IF n <= 6 THEN 0 ELSE x[3] % (256 ^ (n - 6))>>

ByteOf(x, k) == (x[(k \div 3) + 1] \div (256 ^ (k % 3))) % 256

\* The step executes the command of `load xD n off`, which follows the
\* command of `store xS off n` that has just run without error.
LoadAfterStore(n, off) ==
    /\ Executes("CMD_LOAD")
    /\ current >= 2
    /\ last.kind = "store"
    /\ last.at = current - 1
    /\ commands[current - 1] = CmdStore(commands[current - 1].destination, off, n)
    /\ commands'[current] = CmdLoad(commands'[current].destination, n, off)

\* C15: `store xS OFF N` followed by `load xD N OFF`, N in {1, 2, 4, 8} and the
\* range in bounds, leaves xD equal to the low 8 * N bits of xS, zero-extended
\* (xS itself for N = 8; 255 in x1 after `mov x0 255`, `store x0 0 8`,
\* `load x1 8 0`); the bytes in memory are in little-endian order.
C15_StoreLoadRoundTrip ==
    [][\A n \in {1, 2, 4, 8} : \A off \in 0..(MEM_CAPACITY - n) :
         LoadAfterStore(n, off) =>
           LET xS == variables[commands[current - 1].destination]
               xD == variables'[commands'[current].destination]
           IN  /\ ~had_error'
               /\ AsUnsigned(xD) = LowBytes(AsUnsigned(xS), n)
               /\ n = 8 => xD = xS
               /\ \A k \in 0..(n - 1) : mem[off + k] = ByteOf(AsUnsigned(xS), k)]_vars

\* `mov x0 255`, `store x0 0 8`, `load x1 8 0` has run and x1 is 255.
C15_Witness ==
    /\ commands = <<CmdMov(0, 255), CmdStore(0, 0, 8), CmdLoad(1, 8, 0)>>
    /\ last.kind = "load"
    /\ last.at = 3
    /\ variables[1] = W(255)
    /\ mem[0] = 255

\* C16: a LOAD whose byte count is larger than 8, or whose byte range is not
\* entirely inside memory, sets the error flag; and every LOAD, successful or
\* not, leaves every register other than its destination unchanged.
C16_LoadChecksSizeAndRange ==
    [][Executes("CMD_LOAD") =>
         /\ (ByteCount > 8 \/ ~RangeInside) => had_error'
         /\ \A r \in Registers \ {commands'[current].destination} :
               variables'[r] = variables[r]]_vars

\* The literal of the PUT the step executes with its terminating NUL, and
\* whether all of its bytes, written from the offset on, fall inside memory.
PutLiteral == commands'[current].val_a \o <<0>>

PutInside ==
    /\ OffsetNum[3] = 0
    /\ OffsetNum[2] = 0
    /\ OffsetNum[1] + Len(PutLiteral) <= MEM_CAPACITY

\* Memory address a is at or after the offset of the step's PUT.
FromOffsetOn(a) ==
    /\ OffsetNum[3] = 0
    /\ OffsetNum[2] = 0
    /\ a >= OffsetNum[1]

\* C17: after a successful PUT of a literal s at offset o, memory bytes
\* o..o+len(s)-1 are the bytes of s, byte o+len(s) is 0 and no other byte has
\* changed; when a byte of the write falls outside memory the error flag is
\* set and the bytes written before the failing one stay written.
C17_PutWritesLiteral ==
    [][Executes("CMD_PUT") =>
         IF PutInside
         THEN /\ ~had_error'
              /\ \A a \in DOMAIN mem :
                    mem'[a] = IF FromOffsetOn(a) /\ a < OffsetNum[1] + Len(PutLiteral)
                              THEN PutLiteral[a - OffsetNum[1] + 1]
                              ELSE mem[a]
         ELSE /\ had_error'
              /\ \A a \in DOMAIN mem :
                    mem'[a] = IF FromOffsetOn(a) THEN PutLiteral[a - OffsetNum[1] + 1]
                              ELSE mem[a]]_vars

\* `put "ab" 9` in a memory of 10 bytes has failed on 'b' with 'a' written.
C17_Witness ==
    /\ last.kind = "put_error"
    /\ commands[last.at] = CmdPut(Str_ab, LastByte)
    /\ had_error
    /\ mem[LastByte] = 97
    /\ mem[LastByte] # MemImage[LastByte]

\* Bit k (0 the least significant) of an unsigned number in base 2^24.
BitOfNum(x, k) == (x[(k \div 24) + 1] \div (2 ^ (k % 24))) % 2

\* The value the PRINT of the step prints: register val_a or the immediate.
PrintValue ==
    IF commands'[current].is_a_immediate THEN W(commands'[current].val_a)
    ELSE variables[commands'[current].val_a]

\* C18: PRINT with base b prints, for every value v, "0b" followed by the
\* binary digits of v read as an unsigned 64-bit number, without leading
\* zeros: "0b0" for 0, and all 64 digits when the top bit is set (64 ones
\* for -1).
C18_PrintBinary ==
    [][(Executes("CMD_PRINT") /\ commands'[current].val_b = 98) =>
         /\ ~had_error'
         /\ Len(output') = Len(output) + 1
         /\ LET line == output'[Len(output')]
                n == Len(line) - 2
                v == AsUnsigned(PrintValue)
            IN  /\ n >= 1 /\ n <= 64
                /\ line[1] = 48 /\ line[2] = 98
                /\ \A k \in 1..n : line[2 + k] = 48 + BitOfNum(v, n - k)
                /\ \A k \in n..63 : BitOfNum(v, k) = 0
                /\ n > 1 => line[3] = 49
                /\ v = <<0, 0, 0>> => line = <<48, 98, 48>>
                /\ BitOfNum(v, 63) = 1 => n = 64
                /\ PrintValue = W(0 - 1) => \A k \in 1..64 : line[2 + k] = 49]_vars

\* `print x1 b` with x1 = -1 has printed "0b" and 64 digits.
C18_Witness ==
    /\ last.kind = "print"
    /\ commands[last.at] = CmdPrint(1, Base_b)
    /\ variables[1] = W(0 - 1)
    /\ Len(output) = 1
    /\ Len(output[1]) = 66
    /\ output[1][66] = 49

\* ------------------------------------------------- the label table as a map

\* The step is a call of put_label, and its entry in the history.
PutStep == Len(puts') = Len(puts) + 1

ThePut == puts'[Len(puts')]

\* The name was put before, and the command of the first put of it.
PutBefore(id) == \E k \in 1..Len(puts) : puts[k].id = id

FirstPut(id) ==
    puts[CHOOSE k \in 1..Len(puts) :
            puts[k].id = id /\ \A j \in 1..(k - 1) : puts[j].id # id].command

\* C19: a put of a name that is already present returns failure and leaves
\* the table unchanged, and the name still maps to the command of its first
\* put.
C19_PutIsFirstWriterWins ==
    [][(PutStep /\ PutBefore(ThePut.id)) =>
         /\ ~ThePut.ok
         /\ label_map' = label_map
         /\ \E b \in DOMAIN label_map' : \E k \in 1..Len(label_map'[b]) :
               /\ label_map'[b][k].id = ThePut.id
               /\ label_map'[b][k].command = FirstPut(ThePut.id)
         /\ \A b \in DOMAIN label_map' : \A k \in 1..Len(label_map'[b]) :
               label_map'[b][k].id = ThePut.id =>
                   label_map'[b][k].command = FirstPut(ThePut.id)]_vars

\* "ab" was put on command 1, a second put of "ab" on command 2 was refused,
\* and a get of "ab" has returned command 1.
C19_Witness ==
    /\ Len(puts) >= 2
    /\ puts[1] = [id |-> Str_ab, command |-> 1, ok |-> TRUE]
    /\ puts[2] = [id |-> Str_ab, command |-> 2, ok |-> FALSE]
    /\ last.kind = "get_label"
    /\ last.id = Str_ab
    /\ last.entry # <<>>
    /\ last.entry[1].command = 1

\* C20: for every capacity >= 1 and every sequence of puts, get(name) returns
\* the command of the first put of exactly that name, and "not found" for a
\* name never put, also for names with the same byte sum ("ab" and "ba").
C20_TableIsPartialMap ==
    \A id \in LabelNames :
        get_label(label_map, id) =
            IF PutBefore(id) THEN <<[id |-> id, command |-> FirstPut(id)]>> ELSE <<>>

\* In a table of one bucket, "ab" is on command 1 and "ba" on command 2, and
\* a get of "ba" has returned command 2.
C20_Witness ==
    /\ Capacity(label_map) = 1
    /\ puts = <<[id |-> Str_ab, command |-> 1, ok |-> TRUE],
                [id |-> Str_ba, command |-> 2, ok |-> TRUE]>>
    /\ last.kind = "get_label"
    /\ last.id = Str_ba
    /\ last.entry = <<[id |-> Str_ba, command |-> 2]>>

\* ------------------------------------------------- C21..C30

\* Whether the characters s are decimal digits, at least one, after an optional
\* sign, and the number they spell.
IsDecimalInteger(s) ==
    LET from == IF s # <<>> /\ s[1] \in {43, 45} THEN 2 ELSE 1
    IN  /\ Len(s) >= from
        /\ \A i \in from..Len(s) : s[i] >= 48 /\ s[i] <= 57

RECURSIVE DigitsValue(_, _, _)
DigitsValue(s, from, n) ==
    IF n < from THEN 0 ELSE 10 * DigitsValue(s, from, n - 1) + (s[n] - 48)

DecimalValue(s) ==
    IF s[1] = 45 THEN 0 - DigitsValue(s, 2, Len(s))
    ELSE IF s[1] = 43 THEN DigitsValue(s, 2, Len(s))
    ELSE DigitsValue(s, 1, Len(s))

\* The characters of the last token tried after its first.
LastSuffix == SubSeq(last.token.lexeme, 2, Len(last.token.lexeme))

Tok_0x1A == Num(<<48, 120, 49, 65>>)
Tok_0b101 == Num(<<48, 98, 49, 48, 49>>)
Tok_26 == Num(<<50, 54>>)
Tok_0b11010 == Num(<<48, 98, 49, 49, 48, 49, 48>>)

\* C22 as stated: parse_im decodes each of `0x1A`, `0b101` and `26` to 26.
C22_AllThreeDecodeTo26 ==
    (last.kind = "parse_im" /\ last.token \in {Tok_0x1A, Tok_0b101, Tok_26})
        => (last.ok /\ last.num_val = 26)

\* C22, amended: parse_im decodes `0x1A` and `26` to the same immediate, 26, and
\* `0b101` to 5; the binary token that decodes to 26 is `0b11010`.
C22_NumericLiteralDecoding ==
    last.kind = "parse_im" =>
        /\ last.token \in {Tok_0x1A, Tok_26, Tok_0b11010} => (last.ok /\ last.num_val = 26)
        /\ last.token = Tok_0b101 => (last.ok /\ last.num_val = 5)

C22_Witness ==
    /\ last.kind = "parse_im"
    /\ last.token = Tok_0b101
    /\ last.ok
    /\ last.num_val = 5

\* The grammar of a statement, token by token. The operands after each
\* instruction keyword, in token order: a register, an immediate, a register
\* or an immediate, a base character, a string literal, a label identifier.
OperandClasses(type) ==
    CASE type = "TOK_MOV" -> <<"register", "immediate">>
      [] type \in {"TOK_ADD", "TOK_SUB", "TOK_LSL", "TOK_LSR", "TOK_ASR"}
            -> <<"register", "register", "either">>
      [] type \in {"TOK_CMP", "TOK_CMP_U"} -> <<"register", "either">>
      [] type = "TOK_PRINT" -> <<"either", "base">>
      [] type \in {"TOK_AND", "TOK_EOR", "TOK_ORR"} -> <<"register", "register", "register">>
      [] type = "TOK_LOAD" -> <<"register", "immediate", "either">>
      [] type = "TOK_STORE" -> <<"register", "either", "immediate">>
      [] type = "TOK_PUT" -> <<"string", "either">>
      [] type \in {"TOK_BRANCH", "TOK_BRANCH_EQ", "TOK_BRANCH_GE", "TOK_BRANCH_GT",
                   "TOK_BRANCH_LE", "TOK_BRANCH_LT", "TOK_BRANCH_NEQ", "TOK_CALL"}
            -> <<"label">>
      [] type = "TOK_RET" -> <<>>
      [] OTHER -> <<"none">>

IsKeyword(token) == OperandClasses(token.type) # <<"none">>

\* A register token: `x` and a decimal integer in 0..31.
IsRegisterToken(token) ==
    /\ token.type = "TOK_IDENT"
    /\ Len(token.lexeme) >= 2
    /\ token.lexeme[1] = 120
    /\ IsDecimalInteger(SubSeq(token.lexeme, 2, Len(token.lexeme)))
    /\ DecimalValue(SubSeq(token.lexeme, 2, Len(token.lexeme))) \in 0..31

\* A numeric token: decimal digits, hexadecimal digits after 0x, or binary
\* digits after 0b.
IsImmediateToken(token) ==
    LET s == token.lexeme
        Digits(set) == \A n \in 3..Len(s) : s[n] \in set
    IN  /\ token.type = "TOK_NUM"
        /\ IF Len(s) > 2 /\ s[1] = 48 /\ s[2] = 120
           THEN Digits((48..57) \cup (65..70) \cup (97..102))
           ELSE IF Len(s) > 2 /\ s[1] = 48 /\ s[2] = 98
           THEN Digits({48, 49})
           ELSE IsDecimalInteger(s)

OperandFits(class, token) ==
    CASE class = "register" -> IsRegisterToken(token)
      [] class = "immediate" -> IsImmediateToken(token)
      [] class = "either" -> IsRegisterToken(token) \/ IsImmediateToken(token)
      [] class = "base" -> Len(token.lexeme) = 1 /\ token.lexeme[1] \in {100, 120, 98, 115}
      [] class = "string" -> token.type = "TOK_STR"
      [] class = "label" -> token.type = "TOK_IDENT"
      [] OTHER -> FALSE

\* The position after the blank lines from position i of toks on, and after the
\* label prefixes `id :` from i on.
RECURSIVE AfterBlankLines(_, _)
AfterBlankLines(toks, i) ==
    IF i <= Len(toks) /\ toks[i].type = "TOK_NL" THEN AfterBlankLines(toks, i + 1) ELSE i

RECURSIVE AfterLabels(_, _)
AfterLabels(toks, i) ==
    IF i < Len(toks) /\ toks[i].type = "TOK_IDENT" /\ toks[i + 1].type = "TOK_COLON"
    THEN AfterLabels(toks, i + 2)
    ELSE i

\* The label prefixes of toks from position i on, in source order.
RECURSIVE LabelsFrom(_, _)
LabelsFrom(toks, i) ==
    IF i < Len(toks) /\ toks[i].type = "TOK_IDENT" /\ toks[i + 1].type = "TOK_COLON"
    THEN <<toks[i].lexeme>> \o LabelsFrom(toks, i + 2)
    ELSE <<>>

\* Nothing but blank lines before the end of input: no statement.
NoStatement(toks) ==
    AfterBlankLines(toks, 1) = Len(toks) /\ toks[Len(toks)].type = "TOK_EOF"

\* The position of the instruction keyword of a statement: after the blank
\* lines before it and its label prefixes.
KeywordAt(toks) == AfterLabels(toks, AfterBlankLines(toks, 1))

\* A statement of the grammar: blank lines, then on one line the label
\* prefixes, an instruction keyword, its operands and nothing else, then the
\* terminator (a newline or the end of input).
Grammatical(toks) ==
    LET At_(k) ==
            /\ k < Len(toks)
            /\ IsKeyword(toks[k])
            /\ Len(toks) = k + Len(OperandClasses(toks[k].type)) + 1
            /\ \A n \in 1..Len(OperandClasses(toks[k].type)) :
                   OperandFits(OperandClasses(toks[k].type)[n], toks[k + n])
            /\ toks[Len(toks)].type \in {"TOK_NL", "TOK_EOF"}
    IN  At_(KeywordAt(toks))

\* A statement with a grammar mismatch, a failed decode or a missing terminator.
Erroneous(toks) == ~NoStatement(toks) /\ ~Grammatical(toks)

\* The type of the command an instruction keyword stands for.
CommandType(type) ==
    CASE type = "TOK_MOV" -> "CMD_MOV"
      [] type = "TOK_ADD" -> "CMD_ADD"
      [] type = "TOK_SUB" -> "CMD_SUB"
      [] type = "TOK_CMP" -> "CMD_CMP"
      [] type = "TOK_CMP_U" -> "CMD_CMP_U"
      [] type = "TOK_PRINT" -> "CMD_PRINT"
      [] type = "TOK_AND" -> "CMD_AND"
      [] type = "TOK_EOR" -> "CMD_EOR"
      [] type = "TOK_ORR" -> "CMD_ORR"
      [] type = "TOK_LSL" -> "CMD_LSL"
      [] type = "TOK_LSR" -> "CMD_LSR"
      [] type = "TOK_ASR" -> "CMD_ASR"
      [] type = "TOK_LOAD" -> "CMD_LOAD"
      [] type = "TOK_STORE" -> "CMD_STORE"
      [] type = "TOK_PUT" -> "CMD_PUT"
      [] type = "TOK_CALL" -> "CMD_CALL"
      [] type = "TOK_RET" -> "CMD_RET"
      [] OTHER -> "CMD_BRANCH"

\* The statements read before the k-th are of the grammar, the k-th is not.
FirstErroneous(k) ==
    /\ k \in 1..Len(parser.read)
    /\ Erroneous(parser.read[k])
    /\ \A j \in 1..(k - 1) : ~Erroneous(parser.read[j])

\* C23: when the k-th statement read is the first with a grammar mismatch, a
\* failed register or immediate decode or a missing terminator, the parser's
\* error flag is set, the list holds the instructions of the k-1 statements
\* before it, in source order, and no statement after the k-th is read.
C23_FirstErrorStopsParse ==
    \A k \in 1..Len(parser.read) :
        FirstErroneous(k) =>
            /\ parser.had_error
            /\ Len(parser.read) = k
            /\ Len(commands) = k - 1
            /\ \A j \in 1..(k - 1) :
                   commands[j].type =
                       CommandType(parser.read[j][KeywordAt(parser.read[j])].type)

\* The label names of the prefixes of a statement.
LabelsOf(toks) ==
    {LabelsFrom(toks, AfterBlankLines(toks, 1))[n] :
        n \in 1..Len(LabelsFrom(toks, AfterBlankLines(toks, 1)))}

\* The first instruction keyword among the tokens of a statement.
FirstKeyword(toks) ==
    toks[CHOOSE n \in 1..Len(toks) :
             IsKeyword(toks[n]) /\ \A m \in 1..(n - 1) : ~IsKeyword(toks[m])]

\* The j-th statement read is the first to define id and the k-th, a
\* statement of the grammar, defines it again.
DefinedAgain(id, j, k) ==
    /\ j < k
    /\ id \in LabelsOf(parser.read[j])
    /\ \A n \in 1..(j - 1) : id \notin LabelsOf(parser.read[n])
    /\ id \in LabelsOf(parser.read[k])
    /\ Grammatical(parser.read[k])

\* C24: when the k-th statement defines a label the j-th defined before, the
\* parser's error flag is set, the instructions of both statements are in the
\* list (the j-th and the k-th, the last), the table maps the name to the
\* instruction of the first definition, and no statement after the k-th is read.
C24_DuplicateLabel ==
    \A k \in 1..Len(parser.read) : \A j \in 1..(k - 1) : \A id \in LabelsOf(parser.read[k]) :
        DefinedAgain(id, j, k) =>
            /\ parser.had_error
            /\ Len(commands) = k
            /\ commands[j].type = CommandType(FirstKeyword(parser.read[j]).type)
            /\ commands[k].type = CommandType(FirstKeyword(parser.read[k]).type)
            /\ get_label(label_map, id) = <<[id |-> id, command |-> j]>>
            /\ Len(parser.read) = k

\* `f: ret` has been read after `mov x0 5` and `f:` with `mov x1 7` on the next
\* line: the flag is set and f still names the second instruction.
C24_Witness ==
    /\ Len(parser.read) = 3
    /\ DefinedAgain(Str_f, 2, 3)
    /\ parser.had_error
    /\ parser.returned
    /\ Len(commands) = 3
    /\ commands[3] = CmdRet
    /\ get_label(label_map, Str_f) = <<[id |-> Str_f, command |-> 2]>>

\* A position of toks between an instruction keyword and its last operand at
\* which a newline stands, the statement without that newline being one of
\* the grammar.
NewlineAmongOperands(toks) ==
    \E n \in 2..(Len(toks) - 1) :
        /\ toks[n].type = "TOK_NL"
        /\ Grammatical(SubSeq(toks, 1, n - 1) \o SubSeq(toks, n + 1, Len(toks)))
        /\ KeywordAt(toks) < n

\* A newline stands between a label prefix and the instruction it names.
NewlineAfterLabel(toks) ==
    \E n \in 3..(Len(toks) - 1) :
        /\ toks[n].type = "TOK_NL"
        /\ toks[n - 1].type = "TOK_COLON"
        /\ toks[n - 2].type = "TOK_IDENT"
        /\ Grammatical(SubSeq(toks, 1, n - 1) \o SubSeq(toks, n + 1, Len(toks)))

\* C25: every statement occupies one line. A statement read with a newline
\* between its instruction keyword and its last operand, or between a label
\* prefix and its instruction, sets the parser's error flag.
C25_StatementOnOneLine ==
    \A k \in 1..Len(parser.read) :
        (NewlineAmongOperands(parser.read[k]) \/ NewlineAfterLabel(parser.read[k]))
            => parser.had_error

\* C26: after a parse that ended with the error flag unset, every label prefix
\* of the statements read is in the label table and names the instruction of
\* the list that follows it in source order, the k-th for a prefix of the k-th
\* statement.
C26_NoLabelDropped ==
    (parser.returned /\ ~parser.had_error) =>
        \A k \in 1..Len(parser.read) : \A id \in LabelsOf(parser.read[k]) :
            /\ k <= Len(commands)
            /\ get_label(label_map, id) = <<[id |-> id, command |-> k]>>

\* The register indexes a command holds: its destination where the
\* instruction has one, val_a where it is a register, val_b where it is not an
\* immediate.
RegisterOperands(cmd) ==
    (IF cmd.type \in {"CMD_MOV", "CMD_ADD", "CMD_SUB", "CMD_AND", "CMD_EOR", "CMD_ORR",
                      "CMD_LSL", "CMD_LSR", "CMD_ASR", "CMD_LOAD", "CMD_STORE"}
     THEN {cmd.destination} ELSE {})
    \cup (IF \/ cmd.type \in {"CMD_ADD", "CMD_SUB", "CMD_AND", "CMD_EOR", "CMD_ORR", "CMD_LSL",
                              "CMD_LSR", "CMD_ASR", "CMD_CMP", "CMD_CMP_U"}
             \/ cmd.type = "CMD_PRINT" /\ ~cmd.is_a_immediate
          THEN {cmd.val_a} ELSE {})
    \cup (IF \/ cmd.type \in {"CMD_AND", "CMD_EOR", "CMD_ORR"}
             \/ /\ cmd.type \in {"CMD_ADD", "CMD_SUB", "CMD_LSL", "CMD_LSR", "CMD_ASR",
                                 "CMD_CMP", "CMD_CMP_U", "CMD_LOAD", "CMD_STORE", "CMD_PUT"}
                /\ ~cmd.is_b_immediate
          THEN {cmd.val_b} ELSE {})

\* The operands interpret hands to fetch_number_value for a command, each with
\* the is_im it passes.
Fetched(cmd) ==
    CASE cmd.type \in {"CMD_MOV", "CMD_PRINT"} -> {<<cmd.val_a, cmd.is_a_immediate>>}
      [] cmd.type \in {"CMD_ADD", "CMD_SUB", "CMD_CMP", "CMD_CMP_U", "CMD_LSL", "CMD_LSR",
                       "CMD_ASR"}
            -> {<<cmd.val_a, FALSE>>, <<cmd.val_b, cmd.is_b_immediate>>}
      [] cmd.type \in {"CMD_AND", "CMD_EOR", "CMD_ORR"}
            -> {<<cmd.val_a, FALSE>>, <<cmd.val_b, FALSE>>}
      [] cmd.type \in {"CMD_LOAD", "CMD_STORE"}
            -> {<<cmd.val_a, cmd.is_a_immediate>>, <<cmd.val_b, cmd.is_b_immediate>>}
      [] cmd.type = "CMD_PUT" -> {<<cmd.val_b, cmd.is_b_immediate>>}
      [] OTHER -> {}

\* interpret would set had_error for a register index of the command: in
\* fetch_number_value, or in the destination check of CMD_ADD and CMD_SUB.
IndexFault(cmd) ==
    \/ \E f \in Fetched(cmd) : fetch_number_value(variables, f[1], f[2]).error
    \/ /\ cmd.type \in {"CMD_ADD", "CMD_SUB"}
       /\ cmd.destination < 0 \/ cmd.destination >= NUM_VARIABLES

\* C27: while the parser's error flag is unset, every register index of the
\* commands it produced is in 0..31, and the interpreter running them finds no
\* invalid register index: no fetch and no destination check of a command
\* fails, and no step ends in the error of a MOV, a comparison, an ADD or SUB
\* or a logic instruction, which only a register index raises.
C27_RegisterIndexesInRange ==
    ~parser.had_error =>
        /\ \A i \in 1..Len(commands) :
               /\ \A r \in RegisterOperands(commands[i]) : r \in 0..31
               /\ ~IndexFault(commands[i])
        /\ last.kind \notin {"mov_error", "cmp_error", "addsub_error", "logic_error"}

\* `add x1 x0 x31` of an accepted text has run, x31 read as register 31.
C27_Witness ==
    /\ parser.returned
    /\ ~parser.had_error
    /\ last.kind = "addsub"
    /\ commands[last.at].val_b = 31
    /\ ~commands[last.at].is_b_immediate
    /\ ~had_error

\* The run has just gone past the last command of the list, by the step of an
\* instruction that is no jump, with call frames outstanding.
RanPastEndInCallee ==
    /\ ~returned
    /\ current = 0
    /\ ~had_error
    /\ the_stack # <<>>
    /\ last.at = Len(commands)
    /\ last.kind \in {"mov", "cmp", "store"}

\* C28: when a callee runs past the last command of the list with call frames
\* outstanding, the run halts normally: the next step is the return of
\* interpret, with the cursor null and the error flag unset; no caller is
\* resumed, the frames are freed and the registers keep the callee's values.
C28_RunPastEndInCalleeHalts ==
    [][RanPastEndInCallee =>
         /\ last'.kind = "return"
         /\ returned'
         /\ current' = 0
         /\ ~had_error'
         /\ the_stack' = <<>>
         /\ variables' = variables
         /\ commands' = commands]_vars

\* `call f` with f the `mov x1 7` after it, the last command: the run has ended
\* with x1 = 7, not the 0 the frame of the call holds.
C28_Witness ==
    /\ returned
    /\ ~had_error
    /\ current = 0
    /\ commands = <<CmdCall(Str_f), CmdMov(1, 7)>>
    /\ the_stack = <<>>
    /\ Len(calls) = 1
    /\ Head(calls).variables[1] = W(0)
    /\ variables[1] = W(7)

\* C29: the condition flags change only in the step of a CMP or CMP_U. The
\* steps of a CALL and of a RET leave them as they are, so that after a RET
\* they are those of the last comparison executed, in the callee or not; so
\* does the step of every other instruction, and the parser's.
C29_OnlyCompareChangesFlags ==
    [][/\ flags' # flags => last'.kind = "cmp"
       /\ last'.kind \in {"call", "ret_pop", "ret_empty"} => flags' = flags]_vars

\* `call f`, `f: cmp_u x31 1`, `ret`: the RET has popped the frame of the call
\* and the flags are those of the comparison in the callee, 0 below 1.
C29_Witness ==
    /\ Len(commands) = 3
    /\ commands[1] = CmdCall(Str_f)
    /\ commands[2].type = "CMD_CMP_U"
    /\ last.kind = "ret_pop"
    /\ last.at = 3
    /\ flags = <<FALSE, FALSE, TRUE>>

\* No command the run has reached is a branch or a call: so far the run is
\* that of a program without one.
Straight ==
    \A i \in 1..Len(commands) : commands[i].type \notin {"CMD_BRANCH", "CMD_CALL"}

\* C30: a program with no BRANCH and no CALL always halts. While the run has
\* met no branch and no call, each step that executes a command executes the
\* one under the cursor and leaves the cursor on the next command of the
\* list, or null after the last (or after a RET), or where it is with the
\* error flag set: the cursor only moves forward, no command executes twice
\* and there are at most as many steps as commands. And every run ends,
\* interpret returning, unless it meets a branch or a call.
C30_StraightProgramHalts ==
    /\ [][(Straight' /\ last'.kind # "return") =>
             /\ current >= 1
             /\ last'.at = current
             /\ \/ had_error' /\ current' = current
                \/ ~had_error' /\ current' = current + 1 /\ current < Len(commands)
                \/ ~had_error' /\ current' = 0]_vars
    /\ <>(returned \/ ~Straight)

\* `mov x0 5`, `cmp x1 x0`, `store x1 0 1` has run to its end: the step of the
\* last command has left the cursor null and interpret has returned.
C30_Witness ==
    /\ commands = <<CmdMov(0, 5), CmdCmp(1, 0), CmdStore(1, 0, 1)>>
    /\ returned
    /\ ~had_error
    /\ current = 0


\* A CMP or CMP_U has been executed in the run: one is among the commands
\* the run has reached.
Compared == \E i \in 1..Len(commands) : commands[i].type \in {"CMD_CMP", "CMD_CMP_U"}

\* The last step was that of a branch, and the branch was taken: its
\* condition held and the label was looked up.
BranchStep ==
    last.kind \in {"branch_taken", "branch_error", "branch_local_end", "branch_not_taken"}

BranchTaken == last.kind \in {"branch_taken", "branch_error", "branch_local_end"}

\* C31: before the first CMP or CMP_U of a run the three condition flags are
\* false; a branch executed in that state is taken if it is the
\* branch-if-not-equal or the unconditional one and is not taken if it is the
\* equal, greater, less, greater-or-equal or less-or-equal one. The
\* unconditional branch is taken whatever the flags are. A branch taken to a
\* label of the table leaves the cursor on the label's command, one not taken
\* leaves it on the next command.
C31_BranchesBeforeFirstCompare ==
    /\ ~Compared => flags = <<FALSE, FALSE, FALSE>>
    /\ (~Compared /\ BranchStep) =>
           (BranchTaken <=>
               commands[last.at].branch_condition \in {"BRANCH_NOT_EQUAL", "BRANCH_ALWAYS"})
    /\ (BranchStep /\ commands[last.at].branch_condition = "BRANCH_ALWAYS") => BranchTaken
    /\ last.kind = "branch_taken" => current = get_label(label_map, Str_f)[1].command
    /\ last.kind = "branch_not_taken" => current = NextOf(last.at)

\* The branch-if-not-equal at the head of a list has been taken to f, the
\* second command, no comparison having run.
C31_Witness ==
    /\ ~Compared
    /\ last.kind = "branch_taken"
    /\ last.at = 1
    /\ commands[1] = CmdBranch("BRANCH_NOT_EQUAL", Str_f)
    /\ current = 2

====
